---- MODULE Spec2Model ----
(***************************************************************************)
(* Verification model of powerbot: the BrowserManager resource registry    *)
(* (automation/BrowserManager) and the SessionModel persistence layer      *)
(* (database/models/Session over database/connection).                     *)
(*                                                                         *)
(* Every public method is one action; the driver calls a method awaits are *)
(* part of that action.  Driver close calls may reject (the set `failing`  *)
(* of handles whose close rejects is an input of each teardown action).    *)
(* Driver creation calls (launch, newContext, addInitScript, newPage) are  *)
(* taken to resolve.                                                       *)
(*                                                                         *)
(* Identifiers are sequences of string pieces, so that the template        *)
(* `${contextId}:${pageId}` and String.startsWith are computed on the      *)
(* pieces: the id "a:b" is <<"a", ":", "b">>.                              *)
(***************************************************************************)
EXTENDS Integers, Sequences, FiniteSets, TLC

\* ---------------------------------------------------------------- bounds
MaxHandles == 5      \* browser, context and page handles the driver hands out
MaxLaunches == 2     \* browser processes the driver starts
MaxTime == 2         \* readings of the wall clock
MaxSaveFailures == 1 \* writes of the database file that fail
MaxRetriesDrawn == 2 \* largest config.maxRetries a retry call is given
MaxRuns == 2         \* calls of GameAutomation.run
MaxRecords == 2      \* rows the scraped_data table is ever given
MaxSteps == 2        \* steps of a function given to transaction, items of a batch
MaxPages == 3        \* pages given to scrapeMultiple
MaxScrapes == 1      \* calls of scrape and scrapeMultiple

\* ------------------------------------------------------- input domains
ContextIds == { <<"a">>, <<"a", ":", "b">> }
DefaultPageId == <<"default">>
PageIds == { DefaultPageId, <<"b", ":", "default">> }
BrowserTypes == { "chromium", "firefox", "webkit", "opera" }
SupportedBrowserTypes == { "chromium", "firefox", "webkit" }

NullHandle == 0
NoId == <<>>

SessionIds == { "s1", "s2" }
GameUrls == { "game-automation" }
\* the values the CHECK constraint of sessions.status admits
SessionStatuses == { "active", "completed", "failed", "paused" }
\* metadata objects: key/value pairs in property order
MetadataObjects ==
  { << [k |-> "lastError", v |-> "boom"] >>,
    << [k |-> "note", v |-> "n1"], [k |-> "skip", v |-> "undefined"] >> }
NullTime == 0
NullText == {}

\* this.contextId of the GameAutomation instance: the constructor's default
thisContextId == << "game-automation" >>
\* messages of the errors the page operations of a run reject with
ErrorMessages == { "boom" }
\* config.browser.type
ConfigBrowserTypes == { "chromium", "opera" }

\* retry policies: the fields of RetryConfig
RetryConfigs ==
  [enabled : BOOLEAN, maxRetries : 0..MaxRetriesDrawn, delayMs : {0, 100},
   backoffMultiplier : {0, 2}]
\* the defaults of `config.maxRetries || 3`, `config.delayMs || 1000` and
\* `config.backoffMultiplier || 2`
DefaultMaxRetries == 3
DefaultDelayMs == 1000
DefaultBackoffMultiplier == 2

\* the keys of config.selectors of a GameScraper
Selectors == { "name", "avatar" }

\* page.$(selector) finds no element
NoElement == <<>>

\* the text content of an element, and the values of its attributes: {} for
\* null; "  " is text that is only white space
ElementTexts == { "", "  ", "Hero" }
HrefValues == { {}, { "/hero" } }
SrcValues == { {}, { "/hero.png" } }

\* the documents an extractor returns ({} is the empty document) and a
\* document that refers to itself, which JSON.stringify refuses
EmptyDocument == <<>>
GameDocument == << [k |-> "name", v |-> "Hero"] >>
CircularDocument == << [k |-> "self", v |-> "circular"] >>

VARIABLES
  browser,     \* BrowserManager.browser: NullHandle or the process handle
  contexts,    \* BrowserManager.contexts: Map in insertion order, <<[id, h]>>
  pages,       \* BrowserManager.pages: Map in insertion order, <<[key, h, owner, pid]>>
  nextHandle,  \* next handle the driver returns
  launches,    \* number of browser processes the driver has started
  procs,       \* browser processes that are running
  closed,      \* close() has run on a launched manager
  call,        \* the last manager call: arguments, outcome, returned handle
  closeLog,    \* driver close calls issued by the last call, in order
  db,          \* sessions table of the in-memory sql.js database, by session_id
  disk,        \* sessions table of the database file, as of the last save()
  now,         \* the wall clock
  saveFailures,\* writes of the database file that have failed
  result,      \* the last model call and the QueryResult it returned
  scrapedData, \* scraped_data table of the in-memory database: its rows in
               \*   insertion order and the AUTOINCREMENT sequence
  scrapedDisk, \* scraped_data table of the database file
  foreignKeys, \* PRAGMA foreign_keys of the open sql.js database
  dbLog,       \* what the last call of a model issued, in order: "begin",
               \*   "insert", "commit", "rollback" and "save"
  rpc,         \* retry call: "idle", "call" (at `await fn()`), "sleep",
               \*   "returned" or "raised"
  rVariant,    \* "retry" or "retryWithHandler"
  rConfig,     \* the config argument
  rAttempt,    \* the loop variable attempt
  rFailures,   \* the values fn threw, one per failed invocation
  rInvocations,\* number of invocations of fn
  rSleeps,     \* the delays passed to sleep, in order
  rHandlerCalls,\* the calls of errorHandler in order: (error, attempt) and
               \*   the answer it gave
  rLastError,  \* lastError: <<>> for null
  rRaised,     \* the value the call raised: <<>> for none
  currentSession, \* BaseAutomation.currentSession: <<>> for null
  thisPage,    \* GameAutomation.page: NullHandle for null
  automationIsRunning, \* GameAutomation.isRunning
  retryEnabled,\* config.retry.enabled
  pc,          \* run(): "idle", the await it is suspended at, "returned" or
               \*   "raised"
  stopPc,      \* stop(): "idle" or the await it is suspended at
  runError,    \* message of the error run() raised, "" for none
  started,     \* the current run() has started its session
  runs,        \* calls of run()
  scraperSessionId, \* BaseScraper.sessionId: "" for null
  scrapeCall,  \* the last scraper call and its number: the pages given,
               \*   the pages extractData was invoked on, the error raised
  pageContent, \* the elements of the page a GameScraper reads, by selector
  extractedData \* what GameScraper.extractData returned for it

bmVars == <<browser, contexts, pages, nextHandle, launches, procs, closed,
            call, closeLog>>

dbVars == <<db, disk, now, saveFailures, result, scrapedData, scrapedDisk,
            foreignKeys, dbLog>>

retryVars == <<rpc, rVariant, rConfig, rAttempt, rFailures, rInvocations,
               rSleeps, rHandlerCalls, rLastError, rRaised>>

autoVars == <<currentSession, thisPage, automationIsRunning, retryEnabled, pc,
              stopPc, runError, started, runs>>

scraperVars == <<scraperSessionId, scrapeCall, pageContent, extractedData>>

vars == <<browser, contexts, pages, nextHandle, launches, procs, closed,
          call, closeLog, db, disk, now, saveFailures, result,
          scrapedData, scrapedDisk, foreignKeys, dbLog,
          rpc, rVariant, rConfig, rAttempt, rFailures, rInvocations,
          rSleeps, rHandlerCalls, rLastError, rRaised,
          currentSession, thisPage, automationIsRunning, retryEnabled, pc,
          stopPc, runError, started, runs,
          scraperSessionId, scrapeCall, pageContent, extractedData>>

\* ------------------------------------------------------------- strings
\* `${contextId}:${pageId}`
fullPageId(contextId, pageId) == contextId \o <<":">> \o pageId

\* `${contextId}:`
contextPrefix(contextId) == contextId \o <<":">>

\* String.prototype.startsWith
startsWith(s, prefix) ==
  /\ Len(s) >= Len(prefix)
  /\ SubSeq(s, 1, Len(prefix)) = prefix

\* ---------------------------------------------------------------- Maps
\* Map.has / Map.get / Map.delete on the insertion-ordered entry lists
contextsHas(cs, id) == \E i \in 1..Len(cs) : cs[i].id = id
contextsGet(cs, id) == (CHOOSE i \in 1..Len(cs) : cs[i].id = id)
contextsDelete(cs, id) == SelectSeq(cs, LAMBDA e : e.id # id)

\* Map.set: a new key is appended, an existing key keeps its position
contextsSet(cs, id, h) ==
  IF contextsHas(cs, id)
  THEN [i \in 1..Len(cs) |-> IF cs[i].id = id THEN [id |-> id, h |-> h] ELSE cs[i]]
  ELSE Append(cs, [id |-> id, h |-> h])

pagesHas(ps, key) == \E i \in 1..Len(ps) : ps[i].key = key
pagesGet(ps, key) == ps[CHOOSE i \in 1..Len(ps) : ps[i].key = key]
pagesDelete(ps, key) == SelectSeq(ps, LAMBDA e : e.key # key)

pagesSet(ps, entry) ==
  IF pagesHas(ps, entry.key)
  THEN [i \in 1..Len(ps) |-> IF ps[i].key = entry.key THEN entry ELSE ps[i]]
  ELSE Append(ps, entry)

\* getPageCount / getContextCount / isRunning
getPageCount == Len(pages)
getContextCount == Len(contexts)
isRunning == browser # NullHandle

\* the handles the manager holds
HeldHandles ==
  { pages[i].h : i \in 1..Len(pages) }
    \cup { contexts[i].h : i \in 1..Len(contexts) }
    \cup (IF browser = NullHandle THEN {} ELSE { browser })

Call(op, ctx, pid, arg, outcome, ret) ==
  [op |-> op, ctx |-> ctx, pid |-> pid, arg |-> arg, outcome |-> outcome,
   ret |-> ret]

ScrapeCall(op, n, given, invoked, raised) ==
  [op |-> op, n |-> n, given |-> given, invoked |-> invoked,
   raised |-> raised]

Result(op, sessionId, success, error, data) ==
  [op |-> op, sessionId |-> sessionId, success |-> success, error |-> error,
   data |-> data]

Init ==
  /\ db = <<>>
  /\ disk = <<>>
  /\ now = 1
  /\ saveFailures = 0
  /\ result = Result("new", "", TRUE, "", <<>>)
  /\ scrapedData = [rows |-> <<>>, seq |-> 0]
  /\ scrapedDisk = [rows |-> <<>>, seq |-> 0]
  /\ foreignKeys = TRUE
  /\ dbLog = <<>>
  /\ browser = NullHandle
  /\ contexts = <<>>
  /\ pages = <<>>
  /\ nextHandle = 1
  /\ launches = 0
  /\ procs = {}
  /\ closed = FALSE
  /\ call = Call("new", NoId, NoId, "", "ok", NullHandle)
  /\ closeLog = <<>>
  /\ rpc = "idle"
  /\ rVariant = "retry"
  /\ rConfig = [enabled |-> TRUE, maxRetries |-> DefaultMaxRetries,
                delayMs |-> DefaultDelayMs,
                backoffMultiplier |-> DefaultBackoffMultiplier]
  /\ rAttempt = 0
  /\ rFailures = <<>>
  /\ rInvocations = 0
  /\ rSleeps = <<>>
  /\ rHandlerCalls = <<>>
  /\ rLastError = <<>>
  /\ rRaised = <<>>
  /\ currentSession = <<>>
  /\ thisPage = NullHandle
  /\ automationIsRunning = FALSE
  /\ retryEnabled = TRUE
  /\ pc = "idle"
  /\ stopPc = "idle"
  /\ runError = ""
  /\ started = FALSE
  /\ runs = 0
  /\ scraperSessionId = ""
  /\ scrapeCall = ScrapeCall("new", 0, <<>>, <<>>, "")
  /\ pageContent = [k \in Selectors |-> NoElement]
  /\ extractedData = <<>>

\* --------------------------------------------------------------- launch
\* mutant of launchGuard: the already-launched check is missing
launchGuardMissing == FALSE

\* `if (this.browser)` of launch
launchGuard == browser # NullHandle

launch(browserType) ==
  IF launchGuard
  THEN /\ call' = Call("launch", NoId, NoId, browserType, "AlreadyLaunched",
                       NullHandle)
       /\ closeLog' = <<>>
       /\ UNCHANGED <<browser, contexts, pages, nextHandle, launches, procs,
                      closed>>
  ELSE IF browserType \notin SupportedBrowserTypes
  THEN /\ call' = Call("launch", NoId, NoId, browserType, "UnsupportedBrowser",
                       NullHandle)
       /\ closeLog' = <<>>
       /\ UNCHANGED <<browser, contexts, pages, nextHandle, launches, procs,
                      closed>>
  ELSE /\ launches < MaxLaunches
       /\ nextHandle <= MaxHandles
       /\ launches' = launches + 1
       /\ browser' = nextHandle
       /\ nextHandle' = nextHandle + 1
       /\ procs' = procs \cup { nextHandle }
       /\ call' = Call("launch", NoId, NoId, browserType, "ok", NullHandle)
       /\ closeLog' = <<>>
       /\ UNCHANGED <<contexts, pages, closed>>

\* -------------------------------------------------------- createContext
\* mutant of createContextDuplicate: the duplicate check is missing
createContextDuplicateMissing(contextId) == FALSE

\* `if (this.contexts.has(contextId))` of createContext
createContextDuplicate(contextId) == contextsHas(contexts, contextId)

createContext(contextId) ==
  IF browser = NullHandle
  THEN /\ call' = Call("createContext", contextId, NoId, "", "NotLaunched",
                       NullHandle)
       /\ closeLog' = <<>>
       /\ UNCHANGED <<browser, contexts, pages, nextHandle, launches, procs,
                      closed>>
  ELSE IF createContextDuplicate(contextId)
  THEN /\ call' = Call("createContext", contextId, NoId, "",
                       "DuplicateContext", NullHandle)
       /\ closeLog' = <<>>
       /\ UNCHANGED <<browser, contexts, pages, nextHandle, launches, procs,
                      closed>>
  ELSE /\ nextHandle <= MaxHandles
       /\ contexts' = contextsSet(contexts, contextId, nextHandle)
       /\ nextHandle' = nextHandle + 1
       /\ call' = Call("createContext", contextId, NoId, "", "ok", nextHandle)
       /\ closeLog' = <<>>
       /\ UNCHANGED <<browser, pages, launches, procs, closed>>

\* -------------------------------------------------------------- getPage
\* mutant of getPageExisting: the lookup of an existing page is missing
getPageExistingMissing(key) == FALSE

\* `if (this.pages.has(fullPageId))` of getPage
getPageExisting(key) == pagesHas(pages, key)

getPage(contextId, pageId) ==
  LET key == fullPageId(contextId, pageId) IN
  IF getPageExisting(key)
  THEN /\ call' = Call("getPage", contextId, pageId, "", "ok",
                       pagesGet(pages, key).h)
       /\ closeLog' = <<>>
       /\ UNCHANGED <<browser, contexts, pages, nextHandle, launches, procs,
                      closed>>
  ELSE IF ~contextsHas(contexts, contextId)
  THEN /\ call' = Call("getPage", contextId, pageId, "", "ContextNotFound",
                       NullHandle)
       /\ closeLog' = <<>>
       /\ UNCHANGED <<browser, contexts, pages, nextHandle, launches, procs,
                      closed>>
  ELSE /\ nextHandle <= MaxHandles
       /\ pages' = pagesSet(pages, [key |-> key, h |-> nextHandle,
                                    owner |-> contextId, pid |-> pageId])
       /\ nextHandle' = nextHandle + 1
       /\ call' = Call("getPage", contextId, pageId, "", "ok", nextHandle)
       /\ closeLog' = <<>>
       /\ UNCHANGED <<browser, contexts, launches, procs, closed>>

\* ------------------------------------------------------------ closePage
closePage(contextId, pageId, failing) ==
  LET key == fullPageId(contextId, pageId) IN
  IF ~pagesHas(pages, key)
  THEN /\ call' = Call("closePage", contextId, pageId, "", "ok", NullHandle)
       /\ closeLog' = <<>>
       /\ UNCHANGED <<browser, contexts, pages, nextHandle, launches, procs,
                      closed>>
  ELSE LET page == pagesGet(pages, key) IN
       /\ closeLog' = << [kind |-> "page", h |-> page.h] >>
       /\ IF page.h \in failing
          THEN /\ call' = Call("closePage", contextId, pageId, "",
                               "CloseFailed", NullHandle)
               /\ UNCHANGED pages
          ELSE /\ call' = Call("closePage", contextId, pageId, "", "ok",
                               NullHandle)
               /\ pages' = pagesDelete(pages, key)
       /\ UNCHANGED <<browser, contexts, nextHandle, launches, procs, closed>>

\* --------------------------------------------------------- closeContext
\* mutant of pagesForContext: the filter uses the wrong separator
pagesForContextWrongSeparator(ps, contextId) ==
  LET sel == SelectSeq(ps, LAMBDA e : startsWith(e.key, contextId \o <<"/">>))
  IN [i \in 1..Len(sel) |-> sel[i].key]

\* pagesForContext: the keys that start with `${contextId}:`, in Map order
pagesForContext(ps, contextId) ==
  LET sel == SelectSeq(ps, LAMBDA e : startsWith(e.key, contextPrefix(contextId)))
  IN [i \in 1..Len(sel) |-> sel[i].key]

\* the for loop of closeContext: close and delete each page; the first
\* rejected close throws out of the loop
RECURSIVE closeContextLoop(_, _, _, _)
closeContextLoop(ids, ps, failing, log) ==
  IF ids = <<>>
  THEN [pages |-> ps, log |-> log, thrown |-> FALSE]
  ELSE IF ~pagesHas(ps, Head(ids))
  THEN closeContextLoop(Tail(ids), ps, failing, log)
  ELSE LET page == pagesGet(ps, Head(ids))
           log2 == Append(log, [kind |-> "page", h |-> page.h])
       IN IF page.h \in failing
          THEN [pages |-> ps, log |-> log2, thrown |-> TRUE]
          ELSE closeContextLoop(Tail(ids), pagesDelete(ps, Head(ids)),
                                failing, log2)

\* mutant of closeContextOrder: the context is closed before its pages
closeContextOrderOwnerFirst(pageLog, contextEntry) == <<contextEntry>> \o pageLog

\* the order of the driver calls of closeContext when no page close rejects:
\* the page closes of the loop, then `await context.close()`
closeContextOrder(pageLog, contextEntry) == Append(pageLog, contextEntry)

closeContext(contextId, failing) ==
  IF ~contextsHas(contexts, contextId)
  THEN /\ call' = Call("closeContext", contextId, NoId, "", "ok", NullHandle)
       /\ closeLog' = <<>>
       /\ UNCHANGED <<browser, contexts, pages, nextHandle, launches, procs,
                      closed>>
  ELSE LET context == contexts[contextsGet(contexts, contextId)]
           loop == closeContextLoop(pagesForContext(pages, contextId), pages,
                                    failing, <<>>)
       IN
       /\ pages' = loop.pages
       /\ IF loop.thrown
          THEN /\ closeLog' = loop.log
               /\ call' = Call("closeContext", contextId, NoId, "",
                               "CloseFailed", NullHandle)
               /\ UNCHANGED contexts
          ELSE /\ closeLog' = closeContextOrder(loop.log,
                                     [kind |-> "context", h |-> context.h])
               /\ IF context.h \in failing
                  THEN /\ call' = Call("closeContext", contextId, NoId, "",
                                       "CloseFailed", NullHandle)
                       /\ UNCHANGED contexts
                  ELSE /\ call' = Call("closeContext", contextId, NoId, "",
                                       "ok", NullHandle)
                       /\ contexts' = contextsDelete(contexts, contextId)
       /\ UNCHANGED <<browser, nextHandle, launches, procs, closed>>

\* ---------------------------------------------------------------- close
\* the two try/catch loops of close(): every close is issued, a rejection
\* is logged and swallowed
closeAllLog(entries, kind) ==
  [i \in 1..Len(entries) |-> [kind |-> kind, h |-> entries[i].h]]

\* mutant of closeBrowserField: close() keeps the closed handle
closeBrowserFieldKept == browser

\* `this.browser = null` of close
closeBrowserField == NullHandle

close(failing) ==
  LET log == closeAllLog(pages, "page") \o closeAllLog(contexts, "context") IN
  /\ pages' = <<>>
  /\ contexts' = <<>>
  /\ IF browser # NullHandle
     THEN /\ closeLog' = Append(log, [kind |-> "browser", h |-> browser])
          /\ closed' = TRUE
          /\ IF browser \in failing
             THEN /\ call' = Call("close", NoId, NoId, "", "CloseFailed",
                                  NullHandle)
                  /\ UNCHANGED <<browser, procs>>
             ELSE /\ call' = Call("close", NoId, NoId, "", "ok", NullHandle)
                  /\ browser' = closeBrowserField
                  /\ procs' = procs \ { browser }
     ELSE /\ closeLog' = log
          /\ call' = Call("close", NoId, NoId, "", "ok", NullHandle)
          /\ UNCHANGED <<browser, procs, closed>>
  /\ UNCHANGED <<nextHandle, launches>>

\* ------------------------------------------------- browser manager spec
Launch == (\E t \in BrowserTypes : launch(t)) /\ UNCHANGED <<dbVars, retryVars, autoVars, scraperVars>>
CreateContext == (\E c \in ContextIds : createContext(c)) /\ UNCHANGED <<dbVars, retryVars, autoVars, scraperVars>>
GetPage ==
  (\E c \in ContextIds, p \in PageIds : getPage(c, p)) /\ UNCHANGED <<dbVars, retryVars, autoVars, scraperVars>>
ClosePage ==
  /\ \E c \in ContextIds, p \in PageIds, f \in SUBSET HeldHandles :
       closePage(c, p, f)
  /\ UNCHANGED <<dbVars, retryVars, autoVars, scraperVars>>
CloseContext ==
  /\ \E c \in ContextIds, f \in SUBSET HeldHandles : closeContext(c, f)
  /\ UNCHANGED <<dbVars, retryVars, autoVars, scraperVars>>
Close == (\E f \in SUBSET HeldHandles : close(f)) /\ UNCHANGED <<dbVars, retryVars, autoVars, scraperVars>>

NextBrowser ==
  \/ Launch
  \/ CreateContext
  \/ GetPage
  \/ ClosePage
  \/ CloseContext
  \/ Close

SpecBrowser == Init /\ [][NextBrowser]_vars

\* =========================================================== SessionModel
\* JSON.stringify of a metadata object: properties whose value is undefined
\* are left out; the text is the list of the remaining pairs
JsonStringify(obj) == SelectSeq(obj, LAMBDA e : e.v # "undefined")

\* JSON.parse of such a text: the object with those pairs
JsonParse(text) == text

\* mapRowToSession
mapRowToSession(sessionId, row) ==
  [sessionId |-> sessionId,
   gameUrl |-> row.game_url,
   endedAt |-> IF row.ended_at # NullTime THEN { row.ended_at } ELSE {},
   status |-> row.status,
   metadata |-> IF row.metadata # NullText
                THEN { JsonParse(CHOOSE t \in row.metadata : TRUE) }
                ELSE {}]

\* mutant of findBySessionId: the `if (!row)` check is missing
findBySessionIdUnchecked(op, table, sessionId) ==
  Result(op, sessionId, TRUE, "",
         IF sessionId \in DOMAIN table
         THEN << mapRowToSession(sessionId, table[sessionId]) >>
         ELSE <<>>)

\* findBySessionId, as a QueryResult
findBySessionId(op, table, sessionId) ==
  IF sessionId \notin DOMAIN table
  THEN Result(op, sessionId, FALSE, "Session not found", <<>>)
  ELSE Result(op, sessionId, TRUE, "",
              << mapRowToSession(sessionId, table[sessionId]) >>)

\* the sql.js database, the database file and the count of failed writes
store ==
  [db |-> db, disk |-> disk, saveFailures |-> saveFailures,
   scrapedData |-> scrapedData, scrapedDisk |-> scrapedDisk,
   foreignKeys |-> foreignKeys, log |-> <<>>]

\* PRAGMA foreign_keys once Database.export() has reopened the database
exportedForeignKeys(fk) == FALSE

\* mutant of save: the file is not written
saveUnwritten(st, table2, saveOk) ==
  [db |-> table2,
   disk |-> st.disk,
   saveFailures |-> IF saveOk THEN st.saveFailures ELSE st.saveFailures + 1,
   scrapedData |-> st.scrapedData,
   scrapedDisk |-> st.scrapedDisk,
   foreignKeys |-> exportedForeignKeys(st.foreignKeys),
   log |-> Append(st.log, "save")]

\* DatabaseConnection.save after the statement `table2` results from: the
\* file is rewritten, or writeFileSync throws and the file keeps its contents
\* Database.export() of sql.js closes and reopens the database, which puts
\* every pragma back to its default: foreign_keys is off from then on
save(st, table2, saveOk) ==
  [db |-> table2,
   disk |-> IF saveOk THEN table2 ELSE st.disk,
   saveFailures |-> IF saveOk THEN st.saveFailures ELSE st.saveFailures + 1,
   scrapedData |-> st.scrapedData,
   scrapedDisk |-> IF saveOk THEN st.scrapedData ELSE st.scrapedDisk,
   foreignKeys |-> exportedForeignKeys(st.foreignKeys),
   log |-> Append(st.log, "save")]

\* writes of the file that fail are counted up to MaxSaveFailures
saveMay(st, saveOk) == saveOk \/ st.saveFailures < MaxSaveFailures

\* a SessionModel call leaves the store st2 and returns result
setStore(st2, res) ==
  /\ db' = st2.db
  /\ disk' = st2.disk
  /\ saveFailures' = st2.saveFailures
  /\ scrapedData' = st2.scrapedData
  /\ scrapedDisk' = st2.scrapedDisk
  /\ foreignKeys' = st2.foreignKeys
  /\ dbLog' = st2.log
  /\ result' = res

\* mutant of sessionIdTaken: the column has no UNIQUE constraint
sessionIdTakenNever(table, sessionId) == FALSE

\* session_id TEXT UNIQUE NOT NULL: an INSERT of an id some row has is refused
sessionIdTaken(table, sessionId) == sessionId \in DOMAIN table

\* SessionModel.create on the store st; generateSessionId draws sessionId,
\* metadata is a set holding the optional argument
createOn(st, sessionId, gameUrl, metadata, saveOk) ==
  IF sessionIdTaken(st.db, sessionId)
  THEN \* UNIQUE constraint failed: the INSERT throws
       [st |-> st,
        result |-> Result("create", sessionId, FALSE, "UNIQUE constraint", <<>>)]
  ELSE LET row == [game_url |-> gameUrl,
                   status |-> "active",
                   ended_at |-> NullTime,
                   metadata |-> IF metadata # {}
                                THEN { JsonStringify(CHOOSE m \in metadata : TRUE) }
                                ELSE NullText]
           table2 == st.db @@ (sessionId :> row)
       IN [st |-> save(st, table2, saveOk),
           result |-> IF saveOk
                      THEN findBySessionId("create", table2, sessionId)
                      ELSE Result("create", sessionId, FALSE, "save failed", <<>>)]

create(sessionId, gameUrl, metadata, saveOk) ==
  LET r == createOn(store, sessionId, gameUrl, metadata, saveOk) IN
  /\ sessionId \in DOMAIN db \/ saveMay(store, saveOk)
  /\ setStore(r.st, r.result)
  /\ UNCHANGED now

\* mutant of endedAtFor: every status write stamps ended_at
endedAtForAlways(status, t) == t

\* `(status === 'completed' || status === 'failed') ? new Date()... : null`
endedAtFor(status, t) ==
  IF status = "completed" \/ status = "failed" THEN t ELSE NullTime

\* SessionModel.updateStatus on the store st at time t
updateStatusOn(st, sessionId, status, t, saveOk) ==
  LET endedAt == endedAtFor(status, t)
      table2 == [s \in DOMAIN st.db |->
                   IF s = sessionId
                   THEN [st.db[s] EXCEPT !.status = status, !.ended_at = endedAt]
                   ELSE st.db[s]]
  IN [st |-> save(st, table2, saveOk),
      result |-> IF saveOk
                 THEN findBySessionId("updateStatus", table2, sessionId)
                 ELSE Result("updateStatus", sessionId, FALSE, "save failed", <<>>)]

updateStatus(sessionId, status, saveOk) ==
  LET r == updateStatusOn(store, sessionId, status, now, saveOk) IN
  /\ status \in SessionStatuses
  /\ saveMay(store, saveOk)
  /\ setStore(r.st, r.result)
  /\ UNCHANGED now

\* SessionModel.updateMetadata on the store st
updateMetadataOn(st, sessionId, metadata, saveOk) ==
  LET table2 == [s \in DOMAIN st.db |->
                   IF s = sessionId
                   THEN [st.db[s] EXCEPT !.metadata = { JsonStringify(metadata) }]
                   ELSE st.db[s]]
  IN [st |-> save(st, table2, saveOk),
      result |-> IF saveOk
                 THEN findBySessionId("updateMetadata", table2, sessionId)
                 ELSE Result("updateMetadata", sessionId, FALSE, "save failed", <<>>)]

updateMetadata(sessionId, metadata, saveOk) ==
  LET r == updateMetadataOn(store, sessionId, metadata, saveOk) IN
  /\ saveMay(store, saveOk)
  /\ setStore(r.st, r.result)
  /\ UNCHANGED now

\* the clock advances between calls
tick ==
  /\ now < MaxTime
  /\ now' = now + 1
  /\ UNCHANGED <<db, disk, saveFailures, result, scrapedData,
                         scrapedDisk, foreignKeys, dbLog>>

Create ==
  /\ \E s \in SessionIds, u \in GameUrls,
        m \in { {} } \cup { { o } : o \in MetadataObjects }, ok \in BOOLEAN :
       create(s, u, m, ok)
  /\ UNCHANGED <<bmVars, retryVars, autoVars, scraperVars>>
UpdateStatus ==
  /\ \E s \in SessionIds, st \in SessionStatuses, ok \in BOOLEAN :
       updateStatus(s, st, ok)
  /\ UNCHANGED <<bmVars, retryVars, autoVars, scraperVars>>
UpdateMetadata ==
  /\ \E s \in SessionIds, m \in MetadataObjects, ok \in BOOLEAN :
       updateMetadata(s, m, ok)
  /\ UNCHANGED <<bmVars, retryVars, autoVars, scraperVars>>
Tick == tick /\ UNCHANGED <<bmVars, retryVars, autoVars, scraperVars>>

NextSession ==
  \/ Create
  \/ UpdateStatus
  \/ UpdateMetadata
  \/ Tick

SpecSession == Init /\ [][NextSession]_vars

\* ================================================================= retry
\* `x || d` on numbers: 0 is falsy
orDefault(x, d) == IF x = 0 THEN d ELSE x

\* Math.pow on the non-negative integers
RECURSIVE pow(_, _)
pow(b, e) == IF e = 0 THEN 1 ELSE b * pow(b, e - 1)

\* the constants of a retry call with retry enabled
\* mutant of retryMaxRetries: no failure is retried
retryMaxRetriesNone(config) == 0

retryMaxRetries(config) == orDefault(config.maxRetries, DefaultMaxRetries)
retryDelayMs(config) == orDefault(config.delayMs, DefaultDelayMs)
retryBackoffMultiplier(config) ==
  orDefault(config.backoffMultiplier, DefaultBackoffMultiplier)

\* `delayMs * Math.pow(backoffMultiplier, attempt)`
retryDelay(config, attempt) ==
  retryDelayMs(config) * pow(retryBackoffMultiplier(config), attempt)

\* a thrown value: an Error or another value, n tells the invocation
Thrown(isError, n) == [isError |-> isError, n |-> n, converted |-> FALSE]

\* `error instanceof Error ? error : new Error(String(error))`
toError(v) ==
  IF v.isError THEN v ELSE [isError |-> TRUE, n |-> v.n, converted |-> TRUE]

\* mutant of retryLastError: only the first failure is remembered
retryLastErrorFirst(prev, v) == IF prev = <<>> THEN << toError(v) >> ELSE prev

\* `lastError = error instanceof Error ? error : new Error(String(error))`
retryLastError(prev, v) == << toError(v) >>

\* the call of retry(fn, config) or retryWithHandler(fn, errorHandler, config)
retryStart(variant, config) ==
  /\ rpc = "idle"
  /\ rpc' = "call"
  /\ rVariant' = variant
  /\ rConfig' = config
  /\ UNCHANGED <<rAttempt, rFailures, rInvocations, rSleeps, rHandlerCalls,
                 rLastError, rRaised>>

\* `return await fn()` resolves
retryInvokeOk ==
  /\ rpc = "call"
  /\ rpc' = "returned"
  /\ rInvocations' = rInvocations + 1
  /\ UNCHANGED <<rVariant, rConfig, rAttempt, rFailures, rSleeps,
                 rHandlerCalls, rLastError, rRaised>>

\* `await fn()` rejects with v; shouldRetry is the errorHandler's answer
retryInvokeFail(isError, shouldRetry) ==
  LET v == Thrown(isError, rInvocations + 1)
      last == retryLastError(rLastError, v)
  IN
  /\ rpc = "call"
  /\ rInvocations' = rInvocations + 1
  /\ rFailures' = Append(rFailures, v)
  /\ IF ~rConfig.enabled
     THEN \* `return await fn()` of the disabled branch: v propagates as thrown
          /\ rpc' = "raised"
          /\ rRaised' = << v >>
          /\ UNCHANGED <<rHandlerCalls, rLastError>>
     ELSE IF rVariant = "retry"
     THEN /\ rLastError' = last
          /\ UNCHANGED rHandlerCalls
          /\ IF rAttempt >= retryMaxRetries(rConfig)
             THEN rpc' = "raised" /\ rRaised' = last
             ELSE rpc' = "sleep" /\ UNCHANGED rRaised
     ELSE /\ rLastError' = << toError(v) >>
          /\ rHandlerCalls' = Append(rHandlerCalls,
                                     [error |-> toError(v), attempt |-> rAttempt,
                                      answer |-> shouldRetry])
          /\ IF ~shouldRetry \/ rAttempt >= retryMaxRetries(rConfig)
             THEN rpc' = "raised" /\ rRaised' = << toError(v) >>
             ELSE rpc' = "sleep" /\ UNCHANGED rRaised
  /\ UNCHANGED <<rVariant, rConfig, rAttempt, rSleeps>>

\* `await sleep(delay)` and the loop increment
retrySleep ==
  /\ rpc = "sleep"
  /\ rSleeps' = Append(rSleeps, retryDelay(rConfig, rAttempt))
  /\ rAttempt' = rAttempt + 1
  /\ rpc' = "call"
  /\ UNCHANGED <<rVariant, rConfig, rFailures, rInvocations, rHandlerCalls,
                 rLastError, rRaised>>

RetryStart ==
  /\ \E variant \in { "retry", "retryWithHandler" }, config \in RetryConfigs :
       retryStart(variant, config)
  /\ UNCHANGED <<bmVars, dbVars, autoVars, scraperVars>>
RetryInvokeOk == retryInvokeOk /\ UNCHANGED <<bmVars, dbVars, autoVars, scraperVars>>
RetryInvokeFail ==
  /\ \E isError \in BOOLEAN, shouldRetry \in BOOLEAN :
       retryInvokeFail(isError, shouldRetry)
  /\ UNCHANGED <<bmVars, dbVars, autoVars, scraperVars>>
RetrySleep == retrySleep /\ UNCHANGED <<bmVars, dbVars, autoVars, scraperVars>>

NextRetry ==
  \/ RetryStart
  \/ RetryInvokeOk
  \/ RetryInvokeFail
  \/ RetrySleep

SpecRetry == Init /\ [][NextRetry]_vars

\* ------------------------------------------- retry and executeWithRetry
\* the policies config.retry is drawn from, and the number of invocations
\* of the operation that fail before one succeeds
PolicyConfigs ==
  RetryConfigs
    \cup [enabled : { TRUE }, maxRetries : { MaxRetriesDrawn },
          delayMs : { 100 }, backoffMultiplier : { 3 }]
FailCounts == 0..(DefaultMaxRetries + 1)

\* the for loop of retry for an operation whose next `fails` invocations
\* fail: the invocations made, the delays slept and whether it throws
RECURSIVE retryLoop(_, _, _, _, _, _)
retryLoop(maxRetries, delayMs, backoffMultiplier, fails, attempt, sleeps) ==
  IF fails = 0
  THEN [invocations |-> attempt + 1, sleeps |-> sleeps, raised |-> FALSE]
  ELSE IF attempt >= maxRetries
  THEN [invocations |-> attempt + 1, sleeps |-> sleeps, raised |-> TRUE]
  ELSE retryLoop(maxRetries, delayMs, backoffMultiplier, fails - 1,
                 attempt + 1,
                 Append(sleeps, delayMs * pow(backoffMultiplier, attempt)))

\* retry(fn, config) as a whole
retryOutcome(config, fails) ==
  IF ~config.enabled
  THEN [invocations |-> 1, sleeps |-> <<>>, raised |-> fails > 0]
  ELSE retryLoop(retryMaxRetries(config), retryDelayMs(config),
                 retryBackoffMultiplier(config), fails, 0, <<>>)

\* the for loop of executeWithRetry: `delayMs * Math.pow(2, attempt)` is
\* waited while `attempt < maxRetries`
RECURSIVE executeLoop(_, _, _, _, _)
executeLoop(maxRetries, delayMs, fails, attempt, sleeps) ==
  IF fails = 0
  THEN [invocations |-> attempt + 1, sleeps |-> sleeps, raised |-> FALSE]
  ELSE IF attempt < maxRetries
  THEN executeLoop(maxRetries, delayMs, fails - 1, attempt + 1,
                   Append(sleeps, delayMs * pow(2, attempt)))
  ELSE [invocations |-> attempt + 1, sleeps |-> sleeps, raised |-> TRUE]

\* executeWithRetry(fn) of an automation whose config.retry is config, no
\* options given: `options?.maxRetries || this.config.retry.maxRetries` and
\* `options?.delayMs || this.config.retry.delayMs`
executeWithRetryOutcome(config, fails) ==
  executeLoop(config.maxRetries, config.delayMs, fails, 0, <<>>)

\* a whole call with outcome o, as the retry variables record it
retryCalled(variant, config, o) ==
  LET failed == IF o.raised THEN o.invocations ELSE o.invocations - 1
      thrown == [i \in 1..failed |-> Thrown(TRUE, i)]
  IN /\ rVariant' = variant
     /\ rConfig' = config
     /\ rInvocations' = o.invocations
     /\ rSleeps' = o.sleeps
     /\ rFailures' = thrown
     /\ rAttempt' = Len(o.sleeps)
     /\ rLastError' = IF failed = 0 THEN <<>> ELSE << thrown[failed] >>
     /\ rRaised' = IF o.raised THEN << thrown[failed] >> ELSE <<>>
     /\ rpc' = IF o.raised THEN "raised" ELSE "returned"
     /\ UNCHANGED rHandlerCalls

retryWhole(config, fails) ==
  retryCalled("retry", config, retryOutcome(config, fails))

executeWithRetry(config, fails) ==
  retryCalled("executeWithRetry", config, executeWithRetryOutcome(config, fails))

RetryWhole ==
  /\ \E config \in PolicyConfigs, fails \in FailCounts : retryWhole(config, fails)
  /\ UNCHANGED <<bmVars, dbVars, autoVars, scraperVars>>
ExecuteWithRetry ==
  /\ \E config \in PolicyConfigs, fails \in FailCounts :
       executeWithRetry(config, fails)
  /\ UNCHANGED <<bmVars, dbVars, autoVars, scraperVars>>

NextExecute ==
  \/ RetryWhole
  \/ ExecuteWithRetry

SpecExecute == Init /\ [][NextExecute]_vars

\* ======================================================== BaseAutomation
\* `obj[key] = value` on a metadata object: an own key keeps its place
setKey(obj, key, value) ==
  IF \E i \in 1..Len(obj) : obj[i].k = key
  THEN [i \in 1..Len(obj) |->
          IF obj[i].k = key THEN [k |-> key, v |-> value] ELSE obj[i]]
  ELSE Append(obj, [k |-> key, v |-> value])

\* mutant of mergeLastError: the message is not put into the metadata
mergeLastErrorDropped(metadata, errorMessage) ==
  IF metadata = {} THEN <<>> ELSE CHOOSE m \in metadata : TRUE

\* `const metadata = this.currentSession.metadata || {};
\*  metadata['lastError'] = errorMessage;`
mergeLastError(metadata, errorMessage) ==
  setKey(IF metadata = {} THEN <<>> ELSE CHOOSE m \in metadata : TRUE,
         "lastError", errorMessage)

\* updateSessionStatus(status, errorMessage) on the store st with
\* currentSession cur; errorMessage "" stands for the omitted argument too
\* (both are falsy); ok1 and ok2 tell whether the save of updateStatus and of
\* updateMetadata succeed
updateSessionStatusOn(st, cur, res, status, errorMessage, t, ok1, ok2) ==
  IF cur = <<>>
  THEN [st |-> st, cur |-> cur, result |-> res, may |-> TRUE]
  ELSE LET sessionId == cur[1].sessionId
           r1 == updateStatusOn(st, sessionId, status, t, ok1)
           withMessage == errorMessage # ""
           metadata == mergeLastError(cur[1].metadata, errorMessage)
           r2 == IF withMessage
                 THEN updateMetadataOn(r1.st, sessionId, metadata, ok2)
                 ELSE r1
           \* a metadata object the session holds is changed in place
           cur1 == IF withMessage /\ cur[1].metadata # {}
                   THEN << [cur[1] EXCEPT !.metadata = { metadata }] >>
                   ELSE cur
       IN [st |-> r2.st,
           cur |-> IF r1.result.success /\ r1.result.data # <<>>
                   THEN r1.result.data
                   ELSE cur1,
           result |-> r2.result,
           may |-> /\ saveMay(st, ok1)
                   /\ withMessage => saveMay(r1.st, ok2)]

\* mutant of startSessionBound: startSession does not bind the new session
startSessionBoundKept(cur, data) == cur

\* mutant of startSessionBound: a bound controller keeps its session
startSessionBoundOnce(cur, data) == IF cur = <<>> THEN data ELSE cur

\* `this.currentSession = result.data` of startSession
startSessionBound(cur, data) == data

\* startSession(contextId) with the id generateSessionId draws; the contextId
\* is passed as the gameUrl of SessionModel.create. runError holds the
\* message of the error the call throws, "" when it returns
startSession(sessionId, saveOk) ==
  LET r == createOn(store, sessionId, thisContextId, {}, saveOk) IN
  /\ sessionId \in DOMAIN db \/ saveMay(store, saveOk)
  /\ setStore(r.st, r.result)
  /\ IF r.result.success /\ r.result.data # <<>>
     THEN /\ currentSession' = startSessionBound(currentSession, r.result.data)
          /\ runError' = ""
     ELSE /\ currentSession' = currentSession
          /\ runError' = "Failed to create session"
  /\ UNCHANGED <<now, thisPage, automationIsRunning, retryEnabled, pc,
                 stopPc, started, runs>>

\* updateSessionStatus(status, errorMessage); it throws nothing
updateSessionStatus(status, errorMessage, ok1, ok2) ==
  LET r == updateSessionStatusOn(store, currentSession, result, status,
                                 errorMessage, now, ok1, ok2)
  IN /\ r.may
     /\ setStore(r.st, r.result)
     /\ currentSession' = r.cur
     /\ runError' = ""
     /\ UNCHANGED <<now, thisPage, automationIsRunning, retryEnabled, pc,
                    stopPc, started, runs>>

\* the statuses run(), stop() and handleError pass to updateSessionStatus
ControllerStatuses == { "active", "completed", "failed" }

\* a controller whose startSession and updateSessionStatus are called in
\* any order
StartSession ==
  /\ \E s \in SessionIds, ok \in BOOLEAN : startSession(s, ok)
  /\ UNCHANGED <<bmVars, retryVars, scraperVars>>
UpdateSessionStatus ==
  /\ \E st \in ControllerStatuses, e \in { "" } \cup ErrorMessages,
        ok1 \in BOOLEAN, ok2 \in BOOLEAN :
       updateSessionStatus(st, e, ok1, ok2)
  /\ UNCHANGED <<bmVars, retryVars, scraperVars>>
ControllerTick ==
  /\ tick
  /\ UNCHANGED <<bmVars, retryVars, autoVars, scraperVars>>

NextController ==
  \/ StartSession
  \/ UpdateSessionStatus
  \/ ControllerTick

SpecController == Init /\ [][NextController]_vars

\* ======================================================== GameAutomation
\* the catch and finally blocks of run() for an error with this message,
\* the store being st: handleError marks the bound session failed, the error
\* is thrown on to the caller and isRunning is reset
runCatch(st, res, message, ok1, ok2) ==
  LET r == updateSessionStatusOn(st, currentSession, res, "failed", message,
                                 now, ok1, ok2)
  IN /\ r.may
     /\ setStore(r.st, r.result)
     /\ currentSession' = r.cur
     /\ pc' = "raised"
     /\ runError' = message
     /\ automationIsRunning' = FALSE

\* run() up to the await of createContext: launches unless a browser runs
runBegin(browserType, enabled, ok1, ok2) ==
  /\ pc \in { "idle", "returned", "raised" }
  /\ runs < MaxRuns
  /\ runs' = runs + 1
  /\ started' = FALSE
  /\ retryEnabled' = IF runs = 0 THEN enabled ELSE retryEnabled
  /\ IF isRunning THEN UNCHANGED bmVars ELSE launch(browserType)
  /\ IF isRunning \/ call'.outcome = "ok"
     THEN /\ pc' = "createContext"
          /\ automationIsRunning' = TRUE
          /\ runError' = ""
          /\ UNCHANGED <<db, disk, saveFailures, result, scrapedData,
                         scrapedDisk, foreignKeys, dbLog, currentSession>>
     ELSE runCatch(store, result, call'.outcome, ok1, ok2)
  /\ UNCHANGED <<now, thisPage, stopPc>>

\* `await this.browserManager.createContext(this.contextId, ...)`
runCreateContext(ok1, ok2) ==
  /\ pc = "createContext"
  /\ createContext(thisContextId)
  /\ IF call'.outcome = "ok"
     THEN /\ pc' = "getPage"
          /\ UNCHANGED <<db, disk, saveFailures, result, scrapedData,
                         scrapedDisk, foreignKeys, dbLog, currentSession,
                         automationIsRunning, runError>>
     ELSE runCatch(store, result, call'.outcome, ok1, ok2)
  /\ UNCHANGED <<now, thisPage, stopPc, started, runs, retryEnabled>>

\* `this.page = await this.browserManager.getPage(this.contextId)`
runGetPage(ok1, ok2) ==
  /\ pc = "getPage"
  /\ getPage(thisContextId, DefaultPageId)
  /\ IF call'.outcome = "ok"
     THEN /\ pc' = "startSession"
          /\ thisPage' = call'.ret
          /\ UNCHANGED <<db, disk, saveFailures, result, scrapedData,
                         scrapedDisk, foreignKeys, dbLog, currentSession,
                         automationIsRunning, runError>>
     ELSE /\ runCatch(store, result, call'.outcome, ok1, ok2)
          /\ UNCHANGED thisPage
  /\ UNCHANGED <<now, stopPc, started, runs, retryEnabled>>

\* `await this.startSession(this.contextId)`: the contextId is passed as the
\* gameUrl of SessionModel.create
runStartSession(sessionId, saveOk, ok1, ok2) ==
  LET r == createOn(store, sessionId, thisContextId, {}, saveOk) IN
  /\ pc = "startSession"
  /\ sessionId \in DOMAIN db \/ saveMay(store, saveOk)
  /\ IF r.result.success /\ r.result.data # <<>>
     THEN /\ setStore(r.st, r.result)
          /\ currentSession' = startSessionBound(currentSession, r.result.data)
          /\ started' = TRUE
          /\ pc' = "setActive"
          /\ UNCHANGED <<automationIsRunning, runError>>
     ELSE /\ runCatch(r.st, r.result, "Failed to create session", ok1, ok2)
          /\ UNCHANGED started
  /\ UNCHANGED <<bmVars, now, thisPage, stopPc, retryEnabled, runs>>

\* `await this.updateSessionStatus('active')`
runSetActive(ok1) ==
  LET r == updateSessionStatusOn(store, currentSession, result, "active", "",
                                 now, ok1, TRUE)
  IN /\ pc = "setActive"
     /\ r.may
     /\ setStore(r.st, r.result)
     /\ currentSession' = r.cur
     /\ pc' = "navigate"
     /\ UNCHANGED <<bmVars, now, thisPage, automationIsRunning, retryEnabled,
                    stopPc, runError, started, runs>>

\* `await this.navigate(this.page, this.config.game.url)`: resolves (message
\* "") or rejects
runNavigate(message, ok1, ok2) ==
  /\ pc = "navigate"
  /\ IF message = ""
     THEN /\ pc' = "login"
          /\ UNCHANGED <<db, disk, saveFailures, result, scrapedData,
                         scrapedDisk, foreignKeys, dbLog, currentSession,
                         automationIsRunning, runError>>
     ELSE runCatch(store, result, message, ok1, ok2)
  /\ UNCHANGED <<bmVars, now, thisPage, stopPc, started, runs, retryEnabled>>

\* `await this.handleLogin()` and the entry of runGameLoop: both throw
\* 'Page not initialized' when the page is null, and the wait for the
\* navigation resolves (message "") or rejects
runLogin(message, ok1, ok2) ==
  /\ pc = "login"
  /\ IF thisPage = NullHandle
     THEN runCatch(store, result, "Page not initialized", ok1, ok2)
     ELSE IF message = ""
     THEN /\ pc' = "loop"
          /\ UNCHANGED <<db, disk, saveFailures, result, scrapedData,
                         scrapedDisk, foreignKeys, dbLog, currentSession,
                         automationIsRunning, runError>>
     ELSE runCatch(store, result, message, ok1, ok2)
  /\ UNCHANGED <<bmVars, now, thisPage, stopPc, started, runs, retryEnabled>>

\* an iteration of runGameLoop rejects and config.retry.enabled is false:
\* the error leaves the loop (with retry enabled the loop waits and goes on)
runLoopThrows(message, ok1, ok2) ==
  /\ pc = "loop"
  /\ ~retryEnabled
  /\ message # ""
  /\ runCatch(store, result, message, ok1, ok2)
  /\ UNCHANGED <<bmVars, now, thisPage, stopPc, started, runs, retryEnabled>>

\* run() after runGameLoop has returned:
\* `await this.updateSessionStatus('completed')` and the finally block
runCompleted(ok1) ==
  LET r == updateSessionStatusOn(store, currentSession, result, "completed",
                                 "", now, ok1, TRUE)
  IN /\ r.may
     /\ setStore(r.st, r.result)
     /\ currentSession' = r.cur
     /\ pc' = "returned"
     /\ automationIsRunning' = FALSE

\* `while (this.isRunning)` ends once stop() has reset isRunning; then
\* `await this.updateSessionStatus('completed')` and the finally block
runLoopEnds(ok1) ==
  /\ pc = "loop"
  /\ ~automationIsRunning
  /\ runCompleted(ok1)
  /\ UNCHANGED <<bmVars, now, thisPage, stopPc, runError, started, runs,
                 retryEnabled>>

\* stop() up to its first driver call: isRunning is reset and the bound
\* session is marked completed
stopBegin(ok1) ==
  LET r == updateSessionStatusOn(store, currentSession, result, "completed",
                                 "", now, ok1, TRUE)
  IN /\ stopPc = "idle"
     /\ r.may
     /\ automationIsRunning' = FALSE
     /\ setStore(r.st, r.result)
     /\ currentSession' = r.cur
     /\ stopPc' = "closePage"
     /\ UNCHANGED <<bmVars, now, thisPage, retryEnabled, pc, runError, 
                    started, runs>>

\* `if (this.page) { await this.browserManager.closePage(this.contextId);
\*  this.page = null; }`: a rejected close ends stop() with that error
stopClosePage(failing) ==
  /\ stopPc = "closePage"
  /\ thisPage # NullHandle
  /\ closePage(thisContextId, DefaultPageId, failing)
  /\ IF call'.outcome = "ok"
     THEN thisPage' = NullHandle /\ stopPc' = "closeContext"
     ELSE UNCHANGED thisPage /\ stopPc' = "idle"
  /\ UNCHANGED <<dbVars, currentSession, automationIsRunning, retryEnabled,
                 pc, runError, started, runs>>

\* `await this.browserManager.closeContext(this.contextId)`
stopCloseContext(failing) ==
  /\ \/ stopPc = "closeContext"
     \/ stopPc = "closePage" /\ thisPage = NullHandle
  /\ closeContext(thisContextId, failing)
  /\ stopPc' = "idle"
  /\ UNCHANGED <<dbVars, currentSession, thisPage, automationIsRunning,
                 retryEnabled, pc, runError, started, runs>>

RunBegin ==
  /\ \E t \in ConfigBrowserTypes, e \in BOOLEAN, ok1 \in BOOLEAN,
        ok2 \in BOOLEAN : runBegin(t, e, ok1, ok2)
  /\ UNCHANGED <<retryVars, scraperVars>>
RunCreateContext ==
  /\ \E ok1 \in BOOLEAN, ok2 \in BOOLEAN : runCreateContext(ok1, ok2)
  /\ UNCHANGED <<retryVars, scraperVars>>
RunGetPage ==
  /\ \E ok1 \in BOOLEAN, ok2 \in BOOLEAN : runGetPage(ok1, ok2)
  /\ UNCHANGED <<retryVars, scraperVars>>
RunStartSession ==
  /\ \E s \in SessionIds, saveOk \in BOOLEAN, ok1 \in BOOLEAN,
        ok2 \in BOOLEAN : runStartSession(s, saveOk, ok1, ok2)
  /\ UNCHANGED <<retryVars, scraperVars>>
RunSetActive == (\E ok1 \in BOOLEAN : runSetActive(ok1)) /\ UNCHANGED <<retryVars, scraperVars>>
RunNavigate ==
  /\ \E m \in { "" } \cup ErrorMessages, ok1 \in BOOLEAN, ok2 \in BOOLEAN :
       runNavigate(m, ok1, ok2)
  /\ UNCHANGED <<retryVars, scraperVars>>
RunLogin ==
  /\ \E m \in { "" } \cup ErrorMessages, ok1 \in BOOLEAN, ok2 \in BOOLEAN :
       runLogin(m, ok1, ok2)
  /\ UNCHANGED <<retryVars, scraperVars>>
RunLoopThrows ==
  /\ \E m \in ErrorMessages, ok1 \in BOOLEAN, ok2 \in BOOLEAN :
       runLoopThrows(m, ok1, ok2)
  /\ UNCHANGED <<retryVars, scraperVars>>
RunLoopEnds == (\E ok1 \in BOOLEAN : runLoopEnds(ok1)) /\ UNCHANGED <<retryVars, scraperVars>>
StopBegin == (\E ok1 \in BOOLEAN : stopBegin(ok1)) /\ UNCHANGED <<retryVars, scraperVars>>
StopClosePage ==
  (\E f \in SUBSET HeldHandles : stopClosePage(f)) /\ UNCHANGED <<retryVars, scraperVars>>
StopCloseContext ==
  (\E f \in SUBSET HeldHandles : stopCloseContext(f)) /\ UNCHANGED <<retryVars, scraperVars>>
\* another user of the exported SessionModel writes the metadata of the
\* session the automation is bound to
ExternalUpdateMetadata ==
  /\ currentSession # <<>>
  /\ \E m \in { o \in MetadataObjects : \A i \in 1..Len(o) : o[i].k # "lastError" },
        ok \in BOOLEAN :
       updateMetadata(currentSession[1].sessionId, m, ok)
  /\ UNCHANGED <<bmVars, retryVars, autoVars, scraperVars>>

NextAutomation ==
  \/ RunBegin
  \/ RunCreateContext
  \/ RunGetPage
  \/ RunStartSession
  \/ RunSetActive
  \/ RunNavigate
  \/ RunLogin
  \/ RunLoopThrows
  \/ RunLoopEnds
  \/ StopBegin
  \/ StopClosePage
  \/ StopCloseContext
  \/ ExternalUpdateMetadata
  \/ Tick

SpecAutomation == Init /\ [][NextAutomation]_vars

\* --------------------------------------------------------- runGameLoop
\* the awaits of one pass of runGameLoop, as positions of pc
LoopPositions == { "loop", "loopWait", "loopActions", "loopRetryWait" }

\* mutant of loopCondition: the flag is not looked at
loopConditionAlways == TRUE

\* `while (this.isRunning)` and shouldContinue()
loopCondition == automationIsRunning

\* the loop condition is evaluated: a new pass begins with
\* `await this.wait(1000)`, or the loop ends and run() goes on to
\* updateSessionStatus('completed') and its finally block
loopNext(ok1) ==
  IF loopCondition
  THEN /\ pc' = "loopWait"
       /\ UNCHANGED <<db, disk, saveFailures, result, scrapedData,
                      scrapedDisk, foreignKeys, dbLog, currentSession,
                      automationIsRunning, runError>>
  ELSE /\ runCompleted(ok1)
       /\ UNCHANGED runError

\* the catch of the loop body: with config.retry.enabled the pass waits
\* delayMs and continues, otherwise the error leaves the loop
loopCatch(message, ok1, ok2) ==
  IF retryEnabled
  THEN /\ pc' = "loopRetryWait"
       /\ UNCHANGED <<db, disk, saveFailures, result, scrapedData,
                      scrapedDisk, foreignKeys, dbLog, currentSession,
                      automationIsRunning, runError>>
  ELSE runCatch(store, result, message, ok1, ok2)

\* runGameLoop is entered (the page was checked by handleLogin at the same
\* instant) and its condition is evaluated for the first time
loopEnter(ok1) ==
  /\ pc = "loop"
  /\ loopNext(ok1)

\* the timer of `await this.wait(1000)` fires and performGameActions
\* starts: it throws without a page, else it awaits page.title()
loopWaited(ok1, ok2) ==
  /\ pc = "loopWait"
  /\ IF thisPage = NullHandle
     THEN loopCatch("Page not initialized", ok1, ok2)
     ELSE /\ pc' = "loopActions"
          /\ UNCHANGED <<db, disk, saveFailures, result, scrapedData,
                         scrapedDisk, foreignKeys, dbLog, currentSession,
                         automationIsRunning, runError>>

\* page.title() resolves (message "") or rejects; after it
\* `if (!this.shouldContinue()) break` and the loop condition
loopActed(message, ok1, ok2) ==
  /\ pc = "loopActions"
  /\ IF message = "" THEN loopNext(ok1) ELSE loopCatch(message, ok1, ok2)

\* the timer of `await this.wait(this.config.retry.delayMs)` fires:
\* `continue`
loopRetried(ok1) ==
  /\ pc = "loopRetryWait"
  /\ loopNext(ok1)

LoopStep ==
  /\ \/ \E ok1 \in BOOLEAN : loopEnter(ok1)
     \/ \E ok1 \in BOOLEAN, ok2 \in BOOLEAN : loopWaited(ok1, ok2)
     \/ \E m \in { "" } \cup ErrorMessages, ok1 \in BOOLEAN, ok2 \in BOOLEAN :
          loopActed(m, ok1, ok2)
     \/ \E ok1 \in BOOLEAN : loopRetried(ok1)
  /\ UNCHANGED <<bmVars, now, thisPage, stopPc, started, runs, retryEnabled>>
  /\ UNCHANGED <<retryVars, scraperVars>>

\* run() has reached runGameLoop on its first, undisturbed start: browser,
\* context and page are 1, 2 and 3 and session s1 is active
LoopEntry ==
  LET row == [game_url |-> thisContextId, status |-> "active",
              ended_at |-> NullTime, metadata |-> NullText]
  IN
  /\ db = ("s1" :> row)
  /\ disk = db
  /\ now = 1
  /\ saveFailures = 0
  /\ result = findBySessionId("updateStatus", db, "s1")
  /\ scrapedData = [rows |-> <<>>, seq |-> 0]
  /\ scrapedDisk = [rows |-> <<>>, seq |-> 0]
  /\ foreignKeys = FALSE
  /\ dbLog = << "save" >>
  /\ browser = 1
  /\ contexts = << [id |-> thisContextId, h |-> 2] >>
  /\ pages = << [key |-> fullPageId(thisContextId, DefaultPageId), h |-> 3,
                 owner |-> thisContextId, pid |-> DefaultPageId] >>
  /\ nextHandle = 4
  /\ launches = 1
  /\ procs = { 1 }
  /\ closed = FALSE
  /\ call = Call("getPage", thisContextId, DefaultPageId, "", "ok", 3)
  /\ closeLog = <<>>
  /\ rpc = "idle"
  /\ rVariant = "retry"
  /\ rConfig = [enabled |-> TRUE, maxRetries |-> DefaultMaxRetries,
                delayMs |-> DefaultDelayMs,
                backoffMultiplier |-> DefaultBackoffMultiplier]
  /\ rAttempt = 0
  /\ rFailures = <<>>
  /\ rInvocations = 0
  /\ rSleeps = <<>>
  /\ rHandlerCalls = <<>>
  /\ rLastError = <<>>
  /\ rRaised = <<>>
  /\ currentSession = result.data
  /\ thisPage = 3
  /\ automationIsRunning = TRUE
  /\ retryEnabled \in BOOLEAN
  /\ pc = "loop"
  /\ stopPc = "idle"
  /\ runError = ""
  /\ started = TRUE
  /\ runs = 1
  /\ scraperSessionId = ""
  /\ scrapeCall = ScrapeCall("new", 0, <<>>, <<>>, "")
  /\ pageContent = [k \in Selectors |-> NoElement]
  /\ extractedData = <<>>

NextLoop ==
  \/ LoopStep
  \/ StopBegin
  \/ StopClosePage
  \/ StopCloseContext

\* the timers fire and the driver settles its calls: a pass that can go on
\* does go on
SpecLoop == LoopEntry /\ [][NextLoop]_vars /\ WF_vars(LoopStep)

\* the game loop with a game action that fails in every pass, and no stop():
\* page.title() always rejects
FailingLoopStep ==
  /\ \/ \E ok1 \in BOOLEAN : loopEnter(ok1)
     \/ \E ok1 \in BOOLEAN, ok2 \in BOOLEAN : loopWaited(ok1, ok2)
     \/ \E m \in ErrorMessages, ok1 \in BOOLEAN, ok2 \in BOOLEAN :
          loopActed(m, ok1, ok2)
     \/ \E ok1 \in BOOLEAN : loopRetried(ok1)
  /\ UNCHANGED <<bmVars, now, thisPage, stopPc, started, runs, retryEnabled>>
  /\ UNCHANGED <<retryVars, scraperVars>>

NextFailingLoop ==
  \/ FailingLoopStep
  \/ ExternalUpdateMetadata
  \/ Tick

\* timers fire and the driver settles every call: the loop's steps are
\* taken when they can be
SpecFailingLoop ==
  LoopEntry /\ [][NextFailingLoop]_vars /\ WF_vars(FailingLoopStep)

\* ====================================================== ScrapedDataModel
\* JSON.stringify throws a TypeError on an object that refers to itself
stringifyThrows(obj) == \E i \in 1..Len(obj) : obj[i].v = "circular"

\* mapRowToScrapedData
mapRowToScrapedData(row) ==
  [id |-> row.id, sessionId |-> row.session_id,
   content |-> JsonParse(row.content), url |-> row.url]

\* `this.db.run('INSERT INTO scraped_data ...', [sessionId, ...,
\* JSON.stringify(item.content), item.url, ...])`: the arguments are
\* evaluated, then the statement runs under the constraints of the schema;
\* the id is the next value of the AUTOINCREMENT sequence
insertScraped(st, sessionId, item) ==
  IF stringifyThrows(item.content)
  THEN [ok |-> FALSE, st |-> st,
        error |-> "Converting circular structure to JSON"]
  ELSE IF st.foreignKeys /\ sessionId \notin DOMAIN st.db
  THEN [ok |-> FALSE, st |-> st, error |-> "FOREIGN KEY constraint failed"]
  ELSE LET newId == st.scrapedData.seq + 1
           newRow == [id |-> newId, session_id |-> sessionId,
                      content |-> JsonStringify(item.content),
                      url |-> item.url]
       IN [ok |-> TRUE,
           st |-> [st EXCEPT !.scrapedData =
                               [rows |-> Append(@.rows, newRow), seq |-> newId],
                             !.log = Append(@, "insert")],
           error |-> ""]

\* the function a transaction is given, as the steps it takes in order: an
\* INSERT of an item, or the throw of an error of its own; the first step
\* that throws ends it
RECURSIVE runFn(_, _)
runFn(st, steps) ==
  IF steps = <<>>
  THEN [ok |-> TRUE, st |-> st, error |-> ""]
  ELSE IF Head(steps).kind = "throw"
  THEN [ok |-> FALSE, st |-> st, error |-> Head(steps).error]
  ELSE LET r == insertScraped(st, Head(steps).sessionId, Head(steps).item)
       IN IF r.ok THEN runFn(r.st, Tail(steps)) ELSE r

\* mutant of rollback: the writes of the failed function stay
rollbackMissing(before, after) == [after EXCEPT !.log = Append(@, "rollback")]

\* `this.db.run('ROLLBACK')`: the tables are those of BEGIN TRANSACTION
rollback(before, after) ==
  [before EXCEPT !.log = Append(after.log, "rollback")]

\* DatabaseConnection.transaction(fn) on the store st: BEGIN TRANSACTION,
\* fn(), then COMMIT and the value of fn (the number of its steps), or
\* ROLLBACK and the error of fn thrown on
transactionOn(st, steps) ==
  LET begun == [st EXCEPT !.log = Append(@, "begin")]
      r == runFn(begun, steps)
  IN IF r.ok
     THEN [ok |-> TRUE, st |-> [r.st EXCEPT !.log = Append(@, "commit")],
           error |-> "", value |-> Len(steps)]
     ELSE [ok |-> FALSE, st |-> rollback(st, r.st), error |-> r.error,
           value |-> 0]

\* ScrapedDataModel.create on the store st
scrapedCreateOn(st, sessionId, content, url, saveOk) ==
  LET r == insertScraped(st, sessionId, [content |-> content, url |-> url])
      rows2 == r.st.scrapedData.rows
  IN IF ~r.ok
     THEN [st |-> st,
           result |-> Result("scrapedCreate", sessionId, FALSE, r.error, <<>>)]
     ELSE [st |-> save(r.st, r.st.db, saveOk),
           result |-> IF saveOk
                      THEN Result("scrapedCreate", sessionId, TRUE, "",
                                  << mapRowToScrapedData(rows2[Len(rows2)]) >>)
                      ELSE Result("scrapedCreate", sessionId, FALSE,
                                  "save failed", <<>>)]

\* mutant of createManyOn: the save is issued after a rollback as well
createManyOnAlwaysSaving(st, sessionId, items, saveOk) ==
  LET steps == [i \in 1..Len(items) |->
                  [kind |-> "insert", sessionId |-> sessionId,
                   item |-> items[i]]]
      t == transactionOn(st, steps)
  IN [st |-> save(t.st, t.st.db, saveOk),
      result |-> IF t.ok /\ saveOk
                 THEN Result("createMany", sessionId, TRUE, "",
                             << Len(items) >>)
                 ELSE Result("createMany", sessionId, FALSE,
                             IF t.ok THEN "save failed" ELSE t.error, <<>>)]

\* ScrapedDataModel.createMany on the store st: insertMany in a transaction,
\* then one save
createManyOn(st, sessionId, items, saveOk) ==
  LET steps == [i \in 1..Len(items) |->
                  [kind |-> "insert", sessionId |-> sessionId,
                   item |-> items[i]]]
      t == transactionOn(st, steps)
  IN IF ~t.ok
     THEN [st |-> t.st,
           result |-> Result("createMany", sessionId, FALSE, t.error, <<>>)]
     ELSE [st |-> save(t.st, t.st.db, saveOk),
           result |-> IF saveOk
                      THEN Result("createMany", sessionId, TRUE, "",
                                  << Len(items) >>)
                      ELSE Result("createMany", sessionId, FALSE,
                                  "save failed", <<>>)]

\* the rows a DELETE FROM scraped_data leaves: those not in `gone`
scrapedWithout(data, gone) ==
  [data EXCEPT !.rows = SelectSeq(@, LAMBDA r : r \notin gone)]

\* ScrapedDataModel.delete(id) and deleteBySession(sessionId): the DELETE,
\* the save, and the number of rows deleted
scrapedDeleteOn(st, op, sessionId, gone, saveOk) ==
  LET st2 == [st EXCEPT !.scrapedData = scrapedWithout(@, gone)] IN
  [st |-> save(st2, st2.db, saveOk),
   result |-> IF saveOk
              THEN Result(op, sessionId, TRUE, "", << Cardinality(gone) >>)
              ELSE Result(op, sessionId, FALSE, "save failed", <<>>)]

\* the rows of scraped_data that reference a session
rowsOfSession(data, sessionId) ==
  { data.rows[i] : i \in { j \in 1..Len(data.rows) :
                           data.rows[j].session_id = sessionId } }

\* SessionModel.delete on the store st: `DELETE FROM sessions WHERE
\* session_id = ?`; ON DELETE CASCADE takes the rows that reference the
\* session along while foreign keys are enforced
sessionDeleteOn(st, sessionId, saveOk) ==
  LET table2 == [s \in DOMAIN st.db \ { sessionId } |-> st.db[s]]
      st2 == IF st.foreignKeys
             THEN [st EXCEPT !.scrapedData =
                     scrapedWithout(@, rowsOfSession(@, sessionId))]
             ELSE st
  IN [st |-> save(st2, table2, saveOk),
      result |-> IF saveOk
                 THEN Result("delete", sessionId, TRUE, "",
                             << sessionId \in DOMAIN st.db >>)
                 ELSE Result("delete", sessionId, FALSE, "save failed", <<>>)]

\* the items a caller passes: a url with a document
Items ==
  [content : { GameDocument, CircularDocument }, url : { "u1" }]

\* the functions given to transaction: up to MaxSteps steps
FnSteps ==
  [kind : { "insert" }, sessionId : { "s1" }, item : Items, error : { "" }]
    \cup [kind : { "throw" }, sessionId : { "" },
          item : { [content |-> EmptyDocument, url |-> ""] },
          error : ErrorMessages]

SeqsUpTo(S, n) == UNION { [1..m -> S] : m \in 0..n }

\* a model call with the store it leaves and the result it returns
storeCall(r, saveOk) ==
  /\ saveMay(store, saveOk)
  /\ setStore(r.st, r.result)
  /\ UNCHANGED <<now, bmVars, retryVars, autoVars, scraperVars>>

ScrapedCreate ==
  \E s \in SessionIds, c \in { GameDocument, CircularDocument },
     ok \in BOOLEAN :
    /\ scrapedData.seq < MaxRecords
    /\ storeCall(scrapedCreateOn(store, s, c, "u1", ok), ok)

CreateMany ==
  \E s \in SessionIds, items \in SeqsUpTo(Items, MaxSteps), ok \in BOOLEAN :
    /\ scrapedData.seq + Len(items) <= MaxRecords
    /\ storeCall(createManyOn(store, s, items, ok), ok)

ScrapedDelete ==
  \E id \in 1..MaxRecords, ok \in BOOLEAN :
    storeCall(scrapedDeleteOn(store, "scrapedDelete", "",
                { r \in rowsOfSession(scrapedData, "s1")
                          \cup rowsOfSession(scrapedData, "s2") : r.id = id },
                ok), ok)

DeleteBySession ==
  \E s \in SessionIds, ok \in BOOLEAN :
    storeCall(scrapedDeleteOn(store, "deleteBySession", s,
                              rowsOfSession(scrapedData, s), ok), ok)

SessionDelete ==
  \E s \in SessionIds, ok \in BOOLEAN :
    storeCall(sessionDeleteOn(store, s, ok), ok)

\* DatabaseConnection.transaction called with a function of the caller's:
\* nothing is saved
Transaction ==
  \E steps \in SeqsUpTo(FnSteps, MaxSteps) :
    LET t == transactionOn(store, steps) IN
    /\ scrapedData.seq + Len(steps) <= MaxRecords
    /\ setStore(t.st, Result("transaction", "", t.ok, t.error,
                             << steps, t.value >>))
    /\ UNCHANGED <<now, bmVars, retryVars, autoVars, scraperVars>>

\* SessionModel.create with the id generateSessionId gives, "s1"; "s2" is an
\* id that no session is given
StoreCreateSession ==
  /\ \E ok \in BOOLEAN : create("s1", "game-automation", {}, ok)
  /\ UNCHANGED <<bmVars, retryVars, autoVars, scraperVars>>

StoreUpdateStatus ==
  /\ \E s \in SessionIds, ok \in BOOLEAN : updateStatus(s, "completed", ok)
  /\ UNCHANGED <<bmVars, retryVars, autoVars, scraperVars>>

StoreUpdateMetadata ==
  /\ \E s \in SessionIds, ok \in BOOLEAN :
       updateMetadata(s, << [k |-> "note", v |-> "n1"] >>, ok)
  /\ UNCHANGED <<bmVars, retryVars, autoVars, scraperVars>>

NextStore ==
  \/ StoreCreateSession
  \/ StoreUpdateStatus
  \/ StoreUpdateMetadata
  \/ SessionDelete
  \/ ScrapedCreate
  \/ CreateMany
  \/ ScrapedDelete
  \/ DeleteBySession
  \/ Transaction

SpecStore == Init /\ [][NextStore]_vars

\* =========================================================== BaseScraper
\* the pages a scraper is given: page.url() and what extractData does on
\* the page: it returns a document with a field, returns the empty document
\* or throws
PageOutcomes == { "document", "empty", "throws" }
\* page.url() of the i-th page
PageUrl(i) == << "page", i >>

PageLists ==
  UNION { { [i \in 1..m |-> [url |-> PageUrl(i), outcome |-> o[i]]] :
              o \in [1..m -> PageOutcomes] } : m \in 0..MaxPages }

\* mutant of hasFields: every document is taken to have fields
hasFieldsAlways(data) == TRUE

\* `data && Object.keys(data).length > 0`
hasFields(data) == Len(data) > 0

\* extractData of the concrete scraper on a page that does not throw
extractData(page) ==
  IF page.outcome = "document" THEN GameDocument ELSE EmptyDocument

\* mutant of scrapeGuard: scrape does not check the session id
scrapeGuardMissing(sessionId) == FALSE

\* `if (!this.sessionId)`: null and the empty string are falsy
scrapeGuard(sessionId) == sessionId = ""

\* mutant of extractAll: the first page whose extraction throws ends the loop
\* and the error is raised
RECURSIVE extractAllAborting(_)
extractAllAborting(pageList) ==
  IF pageList = <<>>
  THEN [invoked |-> <<>>, results |-> <<>>, raised |-> ""]
  ELSE IF Head(pageList).outcome = "throws"
  THEN [invoked |-> << Head(pageList).url >>, results |-> <<>>,
        raised |-> "extract failed"]
  ELSE LET rest == extractAllAborting(Tail(pageList)) IN
       [invoked |-> << Head(pageList).url >> \o rest.invoked,
        results |-> (IF hasFields(extractData(Head(pageList)))
                     THEN << [content |-> extractData(Head(pageList)),
                              url |-> Head(pageList).url] >>
                     ELSE <<>>) \o rest.results,
        raised |-> rest.raised]

\* the loop of scrapeMultiple: extractData on each page inside its own try;
\* a document with fields is pushed with page.url(), an error is logged
RECURSIVE extractAll(_)
extractAll(pageList) ==
  IF pageList = <<>>
  THEN [invoked |-> <<>>, results |-> <<>>, raised |-> ""]
  ELSE LET rest == extractAll(Tail(pageList)) IN
       [invoked |-> << Head(pageList).url >> \o rest.invoked,
        results |-> (IF /\ Head(pageList).outcome # "throws"
                        /\ hasFields(extractData(Head(pageList)))
                     THEN << [content |-> extractData(Head(pageList)),
                              url |-> Head(pageList).url] >>
                     ELSE <<>>) \o rest.results,
        raised |-> rest.raised]

\* setSessionId
setSessionId(sessionId) ==
  /\ scraperSessionId' = sessionId
  /\ UNCHANGED <<scrapeCall, pageContent, extractedData>>

\* scrape(page): the session check, extractData, and storeData for a
\* document with fields; every error is logged and thrown on
scrape(page, saveOk) ==
  LET r == scrapedCreateOn(store, scraperSessionId, extractData(page),
                           page.url, saveOk)
      n == scrapeCall.n + 1
  IN
  /\ scrapeCall.n < MaxScrapes
  /\ scrapedData.seq < MaxRecords
  /\ saveMay(store, saveOk)
  /\ IF scrapeGuard(scraperSessionId)
     THEN /\ scrapeCall' = ScrapeCall("scrape", n, << page >>, <<>>,
                                      "Session ID not set")
          /\ UNCHANGED <<db, disk, saveFailures, result, scrapedData,
                         scrapedDisk, foreignKeys, dbLog>>
     ELSE IF page.outcome = "throws"
     THEN /\ scrapeCall' = ScrapeCall("scrape", n, << page >>,
                                      << page.url >>, "extract failed")
          /\ UNCHANGED <<db, disk, saveFailures, result, scrapedData,
                         scrapedDisk, foreignKeys, dbLog>>
     ELSE IF ~hasFields(extractData(page))
     THEN /\ scrapeCall' = ScrapeCall("scrape", n, << page >>,
                                      << page.url >>, "")
          /\ UNCHANGED <<db, disk, saveFailures, result, scrapedData,
                         scrapedDisk, foreignKeys, dbLog>>
     ELSE IF scraperSessionId = ""
     THEN \* storeData: `if (!this.sessionId) throw`
          /\ scrapeCall' = ScrapeCall("scrape", n, << page >>,
                                      << page.url >>, "Session ID not set")
          /\ UNCHANGED <<db, disk, saveFailures, result, scrapedData,
                         scrapedDisk, foreignKeys, dbLog>>
     ELSE /\ setStore(r.st, r.result)
          /\ scrapeCall' = ScrapeCall("scrape", n, << page >>, << page.url >>,
                                      IF r.result.success THEN ""
                                      ELSE "Failed to store data")
  /\ UNCHANGED <<now, scraperSessionId, pageContent, extractedData>>

\* scrapeMultiple(pages): the loop, then storeBulkData when a page gave a
\* result
scrapeMultiple(pageList, saveOk) ==
  LET e == extractAll(pageList)
      r == createManyOn(store, scraperSessionId, e.results, saveOk)
      n == scrapeCall.n + 1
  IN
  /\ scrapeCall.n < MaxScrapes
  /\ scrapedData.seq + Len(e.results) <= MaxRecords
  /\ saveMay(store, saveOk)
  /\ IF e.raised # "" \/ e.results = <<>>
     THEN /\ scrapeCall' = ScrapeCall("scrapeMultiple", n, pageList,
                                      e.invoked, e.raised)
          /\ UNCHANGED <<db, disk, saveFailures, result, scrapedData,
                         scrapedDisk, foreignKeys, dbLog>>
     ELSE IF scraperSessionId = ""
     THEN \* storeBulkData: `if (!this.sessionId) throw`
          /\ scrapeCall' = ScrapeCall("scrapeMultiple", n, pageList,
                                      e.invoked, "Session ID not set")
          /\ UNCHANGED <<db, disk, saveFailures, result, scrapedData,
                         scrapedDisk, foreignKeys, dbLog>>
     ELSE /\ setStore(r.st, r.result)
          /\ scrapeCall' = ScrapeCall("scrapeMultiple", n, pageList,
                                      e.invoked,
                                      IF r.result.success THEN ""
                                      ELSE "Failed to store bulk data")
  /\ UNCHANGED <<now, scraperSessionId, pageContent, extractedData>>

SetSessionId ==
  /\ \E s \in { "s1", "" } : setSessionId(s)
  /\ UNCHANGED <<bmVars, dbVars, retryVars, autoVars>>

Scrape ==
  /\ \E o \in PageOutcomes, ok \in BOOLEAN :
       scrape([url |-> PageUrl(1), outcome |-> o], ok)
  /\ UNCHANGED <<bmVars, retryVars, autoVars>>

ScrapeMultiple ==
  /\ \E l \in PageLists, ok \in BOOLEAN : scrapeMultiple(l, ok)
  /\ UNCHANGED <<bmVars, retryVars, autoVars>>

NextScraper ==
  \/ StoreCreateSession
  \/ SetSessionId
  \/ Scrape
  \/ ScrapeMultiple

SpecScraper == Init /\ [][NextScraper]_vars

\* =========================================================== GameScraper
\* the elements a selector can match
Elements ==
  { NoElement } \cup [text : ElementTexts, href : HrefValues, src : SrcValues]

\* String.prototype.trim
trim(text) == IF text = "  " THEN "" ELSE text

\* `if (href)`: null and the empty string are falsy
truthy(value) == value # {} /\ value # { "" }

\* extractField: the text content of the first element the selector
\* matches, null when there is none
extractField(content, selector) ==
  IF content[selector] = NoElement THEN {} ELSE { content[selector].text }

\* extractAttribute: page.getAttribute waits for the element and rejects when
\* none appears, which is caught; an attribute the element lacks is null
extractAttribute(content, selector, attribute) ==
  IF content[selector] = NoElement
  THEN {}
  ELSE IF attribute = "href" THEN content[selector].href
  ELSE content[selector].src

\* the value extractData gives the key of a selector: {} when the key is
\* left out of the document
extractedField(content, selector) ==
  LET value == extractField(content, selector)
      href == extractAttribute(content, selector, "href")
      src == extractAttribute(content, selector, "src")
  IN IF value # {}
     THEN { trim(CHOOSE t \in value : TRUE) }
     ELSE IF truthy(href) THEN href
     ELSE IF truthy(src) THEN src
     ELSE {}

\* the page shows other elements
PageChanges ==
  /\ pageContent' \in [Selectors -> Elements]
  /\ pageContent' # pageContent
  /\ UNCHANGED <<scraperSessionId, scrapeCall, extractedData>>
  /\ UNCHANGED <<bmVars, dbVars, retryVars, autoVars>>

\* GameScraper.extractData on the page: a key for each selector, then
\* _metadata
ExtractData ==
  /\ extractedData' =
       << [content |-> pageContent,
           fields |-> [k \in Selectors |-> extractedField(pageContent, k)],
           metadata |-> [url |-> PageUrl(1), title |-> "Game"]] >>
  /\ UNCHANGED <<scraperSessionId, scrapeCall, pageContent>>
  /\ UNCHANGED <<bmVars, dbVars, retryVars, autoVars>>

NextExtract ==
  \/ PageChanges
  \/ ExtractData

SpecExtract == Init /\ [][NextExtract]_vars

\* ================================================================ claims
Terminal == { "completed", "failed" }

\* the handle of the context a page was created under
OwnerHandle(cs, page) == cs[contextsGet(cs, page.owner)].h

\* the number of pages created under contextId
PagesOwnedBy(ps, contextId) ==
  Cardinality({ i \in 1..Len(ps) : ps[i].owner = contextId })

\* C1: in every reachable state every registered page was created under a
\* context that is still registered, and contexts (hence pages) are
\* registered only while the manager holds a browser handle.
NoHandleOutlivesOwner ==
  /\ \A i \in 1..Len(pages) : contextsHas(contexts, pages[i].owner)
  /\ contexts # <<>> => browser # NullHandle
  /\ pages # <<>> => browser # NullHandle

\* C1 witness: a closeContext has returned and another context still owns a
\* registered page.
NoHandleOutlivesOwnerWitness ==
  /\ call.op = "closeContext"
  /\ call.outcome = "ok"
  /\ ~contextsHas(contexts, call.ctx)
  /\ pages # <<>>

\* C2 (as stated): a closeContext(id) that returns for a registered id leaves
\* id unregistered, leaves no page created under id registered, lowers the
\* page count by exactly the number of pages created under id, and leaves no
\* page that a later getPage(id, p) would return.
CloseContextCascadesExactly ==
  [][ ( /\ call'.op = "closeContext"
        /\ call'.outcome = "ok"
        /\ contextsHas(contexts, call'.ctx) )
      => /\ ~contextsHas(contexts', call'.ctx)
         /\ \A i \in 1..Len(pages') : pages'[i].owner # call'.ctx
         /\ Len(pages') = Len(pages) - PagesOwnedBy(pages, call'.ctx)
         /\ \A p \in PageIds : ~pagesHas(pages', fullPageId(call'.ctx, p))
    ]_vars

\* C3: a launch() made while a browser handle is held fails with
\* AlreadyLaunched and leaves the handle, the contexts, the pages and the
\* running processes unchanged; at most one browser process runs at a time.
SecondLaunchFails ==
  /\ [](Cardinality(procs) <= 1)
  /\ [][ (call'.op = "launch" /\ browser # NullHandle)
          => /\ call'.outcome = "AlreadyLaunched"
             /\ UNCHANGED <<browser, contexts, pages, procs, launches>>
       ]_vars

\* C3 witness: a rejected second launch on a manager that holds pages.
SecondLaunchFailsWitness ==
  /\ call.op = "launch"
  /\ call.outcome = "AlreadyLaunched"
  /\ browser # NullHandle
  /\ pages # <<>>

\* C4 (as stated): once close() has run on a launched manager, every later
\* launch() fails and starts no browser process.
ClosedIsTerminal ==
  [][ (closed /\ call'.op = "launch")
      => (call'.outcome # "ok" /\ procs' = procs /\ launches' = launches)
    ]_vars

\* C4 (amended): a close() whose browser close succeeds clears the handle and
\* stops the process; launch() fails with AlreadyLaunched exactly while a
\* handle is held, and with no handle held and a supported engine it
\* succeeds and starts a new process, also after a close().
LaunchAfterCloseRestarts ==
  [][ /\ (call'.op = "close" /\ browser # NullHandle /\ call'.outcome = "ok")
         => (browser' = NullHandle /\ procs' = {})
      /\ call'.op = "launch"
         => /\ (call'.outcome = "AlreadyLaunched") <=> (browser # NullHandle)
            /\ (browser = NullHandle /\ call'.arg \in SupportedBrowserTypes)
               => /\ call'.outcome = "ok"
                  /\ browser' # NullHandle
                  /\ browser' \notin procs
                  /\ procs' = procs \cup { browser' }
    ]_vars

\* C4 witness: a launch has succeeded after a close().
LaunchAfterCloseRestartsWitness ==
  /\ closed
  /\ call.op = "launch"
  /\ call.outcome = "ok"
  /\ browser # NullHandle

\* C5: createContext(id) succeeds, registering id with a new handle, exactly
\* when a browser handle is held and id is not registered; with no browser
\* handle it fails with NotLaunched, with id registered it fails with
\* DuplicateContext, and a failed call leaves contexts and pages unchanged.
CreateContextRegistersIff ==
  [][ call'.op = "createContext"
      => /\ (browser = NullHandle)
            => (call'.outcome = "NotLaunched" /\ UNCHANGED <<contexts, pages>>)
         /\ (browser # NullHandle /\ contextsHas(contexts, call'.ctx))
            => /\ call'.outcome = "DuplicateContext"
               /\ UNCHANGED <<contexts, pages>>
         /\ (call'.outcome = "ok")
            <=> (browser # NullHandle /\ ~contextsHas(contexts, call'.ctx))
         /\ (call'.outcome = "ok")
            => /\ call'.ret \notin HeldHandles
               /\ contexts' = Append(contexts, [id |-> call'.ctx, h |-> call'.ret])
               /\ UNCHANGED pages
    ]_vars

\* C5 witness: a duplicate createContext was rejected and the first context
\* still owns a registered page.
CreateContextRegistersIffWitness ==
  /\ call.op = "createContext"
  /\ call.outcome = "DuplicateContext"
  /\ contextsHas(contexts, call.ctx)
  /\ \E i \in 1..Len(pages) : pages[i].owner = call.ctx

\* C6: a getPage(c, p) that follows a successful getPage(c, p) returns the
\* same handle and creates nothing; a getPage whose key is registered
\* returns the registered handle and leaves the pages unchanged; a
\* successful getPage whose key is not registered creates exactly one page.
GetPageIdempotent ==
  [][ call'.op = "getPage"
      => LET key == fullPageId(call'.ctx, call'.pid) IN
         /\ ( /\ call.op = "getPage"
              /\ call.outcome = "ok"
              /\ call.ctx = call'.ctx
              /\ call.pid = call'.pid )
            => (call'.outcome = "ok" /\ call'.ret = call.ret /\ pages' = pages)
         /\ pagesHas(pages, key)
            => /\ call'.outcome = "ok"
               /\ call'.ret = pagesGet(pages, key).h
               /\ pages' = pages
         /\ (call'.outcome = "ok" /\ ~pagesHas(pages, key))
            => /\ Len(pages') = Len(pages) + 1
               /\ call'.ret \notin HeldHandles
               /\ pagesGet(pages', key).h = call'.ret
    ]_vars

\* C6 witness: getPage has returned a page that was created before the most
\* recent handle, that is, an existing page.
GetPageIdempotentWitness ==
  /\ call.op = "getPage"
  /\ call.outcome = "ok"
  /\ pagesHas(pages, fullPageId(call.ctx, call.pid))
  /\ call.ret + 1 < nextHandle

\* C7 (as stated): a getPage whose contextId is not registered fails with
\* ContextNotFound, returns no handle and creates no page.
GetPageUnknownContextFails ==
  [][ (call'.op = "getPage" /\ ~contextsHas(contexts, call'.ctx))
      => /\ call'.outcome = "ContextNotFound"
         /\ call'.ret = NullHandle
         /\ pages' = pages
    ]_vars

\* C8 (as stated): closePage, closeContext and close return without raising
\* and unregister every handle they target, whichever driver close rejects.
TeardownBestEffort ==
  [][ /\ call'.op = "closePage"
         => /\ call'.outcome = "ok"
            /\ ~pagesHas(pages', fullPageId(call'.ctx, call'.pid))
      /\ call'.op = "closeContext"
         => /\ call'.outcome = "ok"
            /\ ~contextsHas(contexts', call'.ctx)
            /\ \A i \in 1..Len(pages') : pages'[i].owner # call'.ctx
      /\ call'.op = "close"
         => /\ call'.outcome = "ok"
            /\ pages' = <<>>
            /\ contexts' = <<>>
            /\ browser' = NullHandle
    ]_vars

\* C9: in the driver close calls of one teardown, a context's close comes
\* after the close of every page registered under it, and in close() every
\* page close comes before every context close and the browser's close
\* comes after the close of every registered page and context.
TeardownChildrenFirst ==
  [][ \A i \in 1..Len(closeLog') :
        LET e == closeLog'[i]
            before == { closeLog'[j].h : j \in 1..(i - 1) }
        IN /\ e.kind = "context"
              => \A n \in 1..Len(pages) :
                   (OwnerHandle(contexts, pages[n]) = e.h \/ call'.op = "close")
                   => pages[n].h \in before
           /\ e.kind = "browser"
              => /\ \A n \in 1..Len(pages) : pages[n].h \in before
                 /\ \A n \in 1..Len(contexts) : contexts[n].h \in before
    ]_vars

\* C9 witness: a closeContext has closed two pages and then the context.
TeardownChildrenFirstWitness ==
  /\ call.op = "closeContext"
  /\ Len(closeLog) >= 3
  /\ closeLog[Len(closeLog)].kind = "context"

\* C10: in the in-memory store and in the database file, a session row's
\* ended_at is set if and only if its status is completed or failed, and a
\* session returned by a model call shows the same.
EndedAtIffTerminal ==
  /\ \A s \in DOMAIN db : (db[s].ended_at # NullTime) <=> (db[s].status \in Terminal)
  /\ \A s \in DOMAIN disk :
       (disk[s].ended_at # NullTime) <=> (disk[s].status \in Terminal)
  /\ \A i \in 1..Len(result.data) :
       (result.data[i].endedAt # {}) <=> (result.data[i].status \in Terminal)

\* C10 witness: a session that had ended is active again with ended_at
\* cleared while the other session is ended, in memory and in the file.
EndedAtIffTerminalWitness ==
  /\ result.op = "updateStatus"
  /\ result.success
  /\ result.data[1].status = "active"
  /\ \E s \in DOMAIN db : db[s].status = "failed" /\ db[s].ended_at = now
  /\ disk = db

\* ---------------------------------------------------------------- retry
\* a retry call that has ended by raising: every invocation of fn failed
RetryExhausted == rVariant = "retry" /\ rpc = "raised"

\* C17: an operation that fails on every invocation is invoked exactly once
\* when config.enabled is false and exactly maxRetries + 1 times when it is
\* true, for every maxRetries >= 0; retry never makes more than
\* maxRetries + 1 invocations.
RetryInvocationCount ==
  rVariant = "retry" =>
    /\ rInvocations <= rConfig.maxRetries + 1
    /\ ~rConfig.enabled => rInvocations <= 1
    /\ rpc = "raised" =>
         rInvocations = IF rConfig.enabled THEN rConfig.maxRetries + 1 ELSE 1

\* C18: with retry enabled the k-th sleep (zero-based) is
\* delayMs * backoffMultiplier^k for every policy value, and sleeps happen
\* only between attempts: a call that has ended slept once less than it
\* invoked.
RetrySleepSchedule ==
  (rVariant = "retry" /\ rConfig.enabled) =>
    /\ \A k \in 1..Len(rSleeps) :
         rSleeps[k] = rConfig.delayMs * pow(rConfig.backoffMultiplier, k - 1)
    /\ rpc \in { "raised", "returned" } => Len(rSleeps) = rInvocations - 1

\* a RetryExhausted error wrapping cause
isRetryExhaustedOf(e, cause) ==
  /\ "cause" \in DOMAIN e
  /\ e.cause = cause

RetryWithHandlerContract ==
  (rVariant = "retryWithHandler" /\ rConfig.enabled) =>
    /\ Len(rHandlerCalls) = Len(rFailures)
    /\ \A i \in 1..Len(rHandlerCalls) :
         /\ rHandlerCalls[i].error = toError(rFailures[i])
         /\ rHandlerCalls[i].attempt = i - 1
         /\ ~rHandlerCalls[i].answer =>
              /\ i = Len(rHandlerCalls)
              /\ rpc = "raised"
              /\ rInvocations = i
              /\ Len(rSleeps) = i - 1
    /\ (\A i \in 1..Len(rHandlerCalls) : rHandlerCalls[i].answer) =>
         rInvocations <= rConfig.maxRetries + 1

\* ------------------------------------------------------- the automation
\* the metadata object persisted in a sessions row: <<>> for NULL
persistedMetadata(row) ==
  IF row.metadata = NullText
  THEN <<>>
  ELSE JsonParse(CHOOSE t \in row.metadata : TRUE)

\* the values an object holds under key
valuesOf(obj, key) == { obj[i].v : i \in { j \in 1..Len(obj) : obj[j].k = key } }

\* run() ends in this step by raising
RunRaises == pc # "raised" /\ pc' = "raised"

\* C11: completed and failed are terminal: once a session's row has one of
\* them, no later step of the automation changes its status or its ended_at.
TerminalStatusIsFinal ==
  [][\A s \in DOMAIN db :
       db[s].status \in Terminal =>
         /\ db'[s].status = db[s].status
         /\ db'[s].ended_at = db[s].ended_at]_vars

\* C12: when startSession succeeds, exactly one row is new, it is active
\* with ended_at unset, every other row is as before, currentSession is that
\* session and the session returned carries that row's sessionId.
StartSessionCreatesActive ==
  [][(pc = "startSession" /\ pc' = "setActive") =>
       \E id \in SessionIds :
         /\ id \notin DOMAIN db
         /\ DOMAIN db' = DOMAIN db \cup { id }
         /\ \A s \in DOMAIN db : db'[s] = db[s]
         /\ db'[id].status = "active"
         /\ db'[id].ended_at = NullTime
         /\ currentSession' = << mapRowToSession(id, db'[id]) >>
         /\ currentSession'[1].status = "active"
         /\ currentSession'[1].endedAt = {}
         /\ result'.success
         /\ result'.data = currentSession']_vars

StartSessionCreatesActiveWitness ==
  /\ pc = "setActive"
  /\ runs = 2
  /\ currentSession # <<>>
  /\ Cardinality(DOMAIN db) = 2
  /\ db[currentSession[1].sessionId].status = "active"
  /\ \E s \in DOMAIN db : db[s].status \in Terminal

\* C13: when run() raises after it started its session, that session's row
\* has status failed and its metadata holds the message of the error under
\* lastError, in the state in which the error reaches the caller.
RunFailureRecorded ==
  [][(RunRaises /\ started') =>
       LET id == currentSession'[1].sessionId IN
       /\ currentSession' # <<>>
       /\ id \in DOMAIN db'
       /\ db'[id].status = "failed"
       /\ runError' # ""
       /\ valuesOf(persistedMetadata(db'[id]), "lastError") = { runError' }]_vars

RunFailureRecordedWitness ==
  /\ pc = "raised"
  /\ started
  /\ runError = "boom"
  /\ currentSession # <<>>
  /\ db[currentSession[1].sessionId].status = "failed"
  /\ valuesOf(persistedMetadata(db[currentSession[1].sessionId]), "lastError")
       = { "boom" }

\* C14: when run() finishes, by returning or by raising, the session it
\* started is completed or failed and the context and the page it acquired
\* are no longer registered in the browser manager.
RunEndTearsDown ==
  [][(pc \notin { "returned", "raised" } /\ pc' \in { "returned", "raised" }) =>
       /\ started' =>
            db'[currentSession'[1].sessionId].status \in Terminal
       /\ pc \in { "getPage", "startSession", "setActive", "navigate", "login",
                   "loop" } =>
            ~contextsHas(contexts', thisContextId)
       /\ pc \in { "startSession", "setActive", "navigate", "login", "loop" } =>
            ~pagesHas(pages', fullPageId(thisContextId, DefaultPageId))]_vars

\* C15: updateSessionStatus(status, errorMessage) keeps every key and value
\* of the metadata persisted for the session when it is called, and sets
\* only lastError, to errorMessage.
TransitionKeepsMetadata ==
  [][(RunRaises /\ currentSession # <<>>) =>
       LET id == currentSession[1].sessionId
           before == persistedMetadata(db[id])
           after == persistedMetadata(db'[id])
       IN /\ \A i \in 1..Len(before) :
               before[i].k # "lastError" =>
                 \E j \in 1..Len(after) : after[j] = before[i]
          /\ valuesOf(after, "lastError") = { runError' }]_vars

\* C16: when the write of startSession fails, run() raises, currentSession
\* is bound as before and the store holds no row it did not hold before.
StartFailureLeavesNoRow ==
  [][(pc = "startSession" /\ pc' = "raised") =>
       /\ runError' = "Failed to create session"
       /\ (currentSession' = <<>>) <=> (currentSession = <<>>)
       /\ currentSession # <<>> =>
            currentSession'[1].sessionId = currentSession[1].sessionId
       /\ DOMAIN db' = DOMAIN db]_vars

\* --------------------------------------------------------------- store
\* C22: the batch insert of createMany is all-or-nothing: a call that
\* reports success has added every record of the batch, and a call that
\* reports failure has left no record of the batch in the in-memory store
\* or in the database file.
BatchAllOrNothing ==
  [][result'.op = "createMany" =>
       IF result'.success
       THEN Len(scrapedData'.rows) = Len(scrapedData.rows) + result'.data[1]
       ELSE /\ scrapedData'.rows = scrapedData.rows
            /\ scrapedDisk'.rows = scrapedDisk.rows]_vars

\* C23: transaction(fn): when fn raises, the tables are those before the
\* call and the error raised is the error of fn; when fn returns, the tables
\* are those fn left and the value returned is the value of fn.
TransactionCommitsOrRollsBack ==
  [][result'.op = "transaction" =>
       LET fn == runFn(store, result'.data[1]) IN
       IF fn.ok
       THEN /\ result'.success
            /\ result'.data[2] = Len(result'.data[1])
            /\ scrapedData' = fn.st.scrapedData
            /\ db' = fn.st.db
       ELSE /\ ~result'.success
            /\ result'.error = fn.error
            /\ scrapedData' = scrapedData
            /\ db' = db]_vars

\* a function that inserted a row and then threw has been rolled back
TransactionCommitsOrRollsBackWitness ==
  /\ result.op = "transaction"
  /\ ~result.success
  /\ result.error \in ErrorMessages
  /\ Len(result.data[1]) = 2
  /\ result.data[1][1].kind = "insert"
  /\ result.data[1][2].kind = "throw"

ModelWrites ==
  { "create", "updateStatus", "updateMetadata", "delete", "scrapedCreate",
    "createMany", "scrapedDelete", "deleteBySession" }

\* C24: after every mutating model operation that returns success the
\* database file holds exactly the in-memory database.
PersistedAfterSuccess ==
  (result.op \in ModelWrites /\ result.success)
    => (disk = db /\ scrapedDisk = scrapedData)

\* a batch has been written after an earlier write of the file had failed
PersistedAfterSuccessWitness ==
  /\ result.op = "createMany"
  /\ result.success
  /\ saveFailures > 0
  /\ Len(scrapedData.rows) >= 2
  /\ DOMAIN db # {}

\* C27: in every reachable state every scraped record references a session
\* that exists.
ScrapedRecordsReferenceSessions ==
  \A i \in 1..Len(scrapedData.rows) :
    scrapedData.rows[i].session_id \in DOMAIN db

\* ------------------------------------------------------------- scraper
\* a step that is a call of scrape / of scrapeMultiple
ScrapeStep == scrapeCall'.n # scrapeCall.n /\ scrapeCall'.op = "scrape"
ScrapeMultipleStep ==
  scrapeCall'.n # scrapeCall.n /\ scrapeCall'.op = "scrapeMultiple"

\* the rows a scraper bound to sessionId stores for pages in order
RECURSIVE rowsFor(_, _, _)
rowsFor(sessionId, pageList, lastId) ==
  IF pageList = <<>>
  THEN <<>>
  ELSE << [id |-> lastId + 1, session_id |-> sessionId,
           content |-> GameDocument, url |-> Head(pageList).url] >>
         \o rowsFor(sessionId, Tail(pageList), lastId + 1)

\* C21: scrapeMultiple invokes the extractor on every page given, in order,
\* whatever the earlier pages did; it raises no error because of a page
\* whose extraction threw (an error it raises comes from the storing of the
\* results), and a call that returns has stored exactly one record for each
\* page whose extraction gave a document with fields, in the order of the
\* pages.
ScrapeMultipleSkipsFailedPages ==
  [][ScrapeMultipleStep =>
       LET given == scrapeCall'.given
           good == SelectSeq(given, LAMBDA p : p.outcome = "document")
       IN /\ scrapeCall'.invoked = [i \in 1..Len(given) |-> given[i].url]
          /\ good = <<>> =>
               /\ scrapeCall'.raised = ""
               /\ scrapedData' = scrapedData
          /\ scrapeCall'.raised = "" =>
               scrapedData'.rows =
                 scrapedData.rows
                   \o rowsFor(scraperSessionId, good, scrapedData.seq)
          /\ scrapeCall'.raised # "" =>
               /\ scrapeCall'.raised
                    \in { "Session ID not set", "Failed to store bulk data" }
               /\ scraperSessionId = "" \/ ~result'.success]_vars

\* [succeeds, throws, succeeds] has stored exactly two records
ScrapeMultipleSkipsFailedPagesWitness ==
  /\ scrapeCall.op = "scrapeMultiple"
  /\ scrapeCall.raised = ""
  /\ Len(scrapeCall.given) = 3
  /\ scrapeCall.given[1].outcome = "document"
  /\ scrapeCall.given[2].outcome = "throws"
  /\ scrapeCall.given[3].outcome = "document"
  /\ scrapeCall.invoked = << PageUrl(1), PageUrl(2), PageUrl(3) >>
  /\ Len(scrapedData.rows) = 2
  /\ scrapedData.rows[1].url = PageUrl(1)
  /\ scrapedData.rows[2].url = PageUrl(3)

\* C25: scrape with no bound session id fails before the extractor is
\* invoked and stores nothing.
ScrapeUnboundFails ==
  [][(ScrapeStep /\ scraperSessionId = "") =>
       /\ scrapeCall'.raised = "Session ID not set"
       /\ scrapeCall'.invoked = <<>>
       /\ scrapedData' = scrapedData
       /\ scrapedDisk' = scrapedDisk
       /\ db' = db
       /\ disk' = disk]_vars

\* scrape has failed so on a page that has a document, the store holding rows
ScrapeUnboundFailsWitness ==
  /\ scrapeCall.op = "scrape"
  /\ scrapeCall.raised = "Session ID not set"
  /\ scrapeCall.given[1].outcome = "document"
  /\ scraperSessionId = ""
  /\ scrapeCall.invoked = <<>>
  /\ scrapedData.rows = <<>>
  /\ DOMAIN db # {}

\* C26: scrape with a bound session stores exactly one record when the
\* extracted document has a field (unless the write of the record fails,
\* which it raises), and stores nothing and raises no error when the
\* document is empty.
ScrapeStoresOneOrNothing ==
  [][(ScrapeStep /\ scraperSessionId # ""
        /\ scrapeCall'.given[1].outcome # "throws") =>
       IF scrapeCall'.given[1].outcome = "document"
       THEN \/ /\ scrapeCall'.raised = ""
               /\ scrapedData'.rows =
                    scrapedData.rows
                      \o rowsFor(scraperSessionId, scrapeCall'.given,
                                 scrapedData.seq)
               /\ scrapedDisk' = scrapedData'
            \/ /\ scrapeCall'.raised = "Failed to store data"
               /\ ~result'.success
       ELSE /\ scrapeCall'.raised = ""
            /\ scrapedData' = scrapedData
            /\ scrapedDisk' = scrapedDisk]_vars

\* a scrape has added a record to a store that held one
ScrapeStoresOneOrNothingWitness ==
  /\ scrapeCall.op = "scrape"
  /\ scrapeCall.raised = ""
  /\ scrapeCall.given[1].outcome = "document"
  /\ Len(scrapedData.rows) = 1
  /\ scrapedData.rows[1].url = PageUrl(1)
  /\ scrapedData.rows[1].session_id = scraperSessionId
  /\ scrapedDisk = scrapedData

\* ----------------------------------------------------------- extraction
\* the field the fallback rule gives an element: its text when it has any,
\* else its href, else its src, else none
fallbackField(element) ==
  IF element # NoElement /\ element.text # ""
  THEN { trim(element.text) }
  ELSE IF element # NoElement /\ truthy(element.href) THEN element.href
  ELSE IF element # NoElement /\ truthy(element.src) THEN element.src
  ELSE {}

\* C30: for each configured selector the extracted field is the element's
\* text when the text read yields a value; when it yields nothing (no
\* element, or an element with empty text) the field is the href attribute,
\* else the src attribute, and the field is left out only when all three
\* yield nothing.
ExtractFallsBackToAttributes ==
  extractedData # <<>> =>
    \A k \in Selectors :
      extractedData[1].fields[k] = fallbackField(extractedData[1].content[k])

\* ------------------------------------------------------------ read back
\* C29: the session a create or a transition reads back by id carries the
\* sessionId, target URL, status and metadata that the call wrote.
ReadBackReturnsWritten ==
  [][/\ \A s \in SessionIds, u \in GameUrls, ok \in BOOLEAN,
           m \in { {} } \cup { { o } : o \in MetadataObjects } :
          (create(s, u, m, ok) /\ result'.success) =>
             /\ result'.data[1].sessionId = s
             /\ result'.data[1].gameUrl = u
             /\ result'.data[1].status = "active"
             /\ result'.data[1].metadata = m
     /\ \A s \in SessionIds, st \in SessionStatuses, ok \in BOOLEAN :
          (updateStatus(s, st, ok) /\ result'.success) =>
             /\ result'.data[1].sessionId = s
             /\ result'.data[1].status = st
             /\ result'.data[1].gameUrl = db[s].game_url
     /\ \A s \in SessionIds, m \in MetadataObjects, ok \in BOOLEAN :
          (updateMetadata(s, m, ok) /\ result'.success) =>
             /\ result'.data[1].sessionId = s
             /\ result'.data[1].metadata = { m }
             /\ result'.data[1].status = db[s].status]_vars

\* ----------------------------------------------------------------- stop
\* C28: once stop() has set the running flag false, the game loop starts no
\* new pass (a pass begins only when the flag is true at the loop check),
\* the pass in flight, its wait or retry sleep included, completes, and
\* run() eventually ends.
StopEndsGameLoop ==
  /\ [][(pc' = "loopWait" /\ pc # "loopWait") => automationIsRunning]_vars
  /\ (pc \in LoopPositions /\ ~automationIsRunning)
       ~> (pc \in { "returned", "raised" })

\* stop() has run to its end during the loop, and run() has returned after
\* a retry sleep on the closed page
StopEndsGameLoopWitness ==
  /\ pc = "returned"
  /\ retryEnabled
  /\ stopPc = "idle"
  /\ thisPage = NullHandle
  /\ contexts = <<>>
  /\ currentSession # <<>>
  /\ currentSession[1].status = "completed"

\* ------------------------------------------------------- session identity
\* C31: a create for which generateSessionId draws an id that a row already
\* has fails and leaves the table in memory and the file as they were; a
\* create that succeeds adds exactly one row, under an id no row had, and
\* changes no other row.
SessionIdsStayDistinct ==
  [][\A s \in SessionIds, u \in GameUrls, ok \in BOOLEAN,
        m \in { {} } \cup { { o } : o \in MetadataObjects } :
       create(s, u, m, ok) =>
         IF s \in DOMAIN db
         THEN /\ ~result'.success
              /\ db' = db
              /\ disk' = disk
         ELSE /\ DOMAIN db' = DOMAIN db \cup { s }
              /\ \A t \in DOMAIN db : db'[t] = db[t]]_vars

\* a create has collided with a session that had already been completed
SessionIdsStayDistinctWitness ==
  /\ result.op = "create"
  /\ ~result.success
  /\ result.error = "UNIQUE constraint"
  /\ result.sessionId \in DOMAIN db
  /\ db[result.sessionId].status = "completed"
  /\ DOMAIN db = SessionIds

\* ------------------------------------------------------------ controller
\* C32: startSession on a controller that is bound succeeds exactly when it
\* would on an unbound one (the id drawn is free and the file is written),
\* and then binds the new session, which differs from the one bound before;
\* it changes no existing row, and a later updateSessionStatus changes no
\* row but the one of the bound session.
SecondStartReplacesBound ==
  [][/\ \A s \in SessionIds, ok \in BOOLEAN :
          (startSession(s, ok) /\ currentSession # <<>>) =>
             /\ result'.success <=> (s \notin DOMAIN db /\ ok)
             /\ result'.success =>
                  /\ runError' = ""
                  /\ currentSession' = result'.data
                  /\ currentSession'[1].sessionId = s
                  /\ currentSession'[1].sessionId # currentSession[1].sessionId
             /\ \A t \in DOMAIN db : db'[t] = db[t]
     /\ \A st \in ControllerStatuses, e \in { "" } \cup ErrorMessages,
           ok1 \in BOOLEAN, ok2 \in BOOLEAN :
          updateSessionStatus(st, e, ok1, ok2) =>
             \A t \in DOMAIN db :
                (currentSession = <<>> \/ t # currentSession[1].sessionId)
                   => db'[t] = db[t]]_vars

\* every write of the file went through, so each row was bound when it was
\* created: s1 is still active with no ended_at while the controller, bound
\* to s2 since, has marked s2 failed
SecondStartReplacesBoundWitness ==
  /\ saveFailures = 0
  /\ DOMAIN db = SessionIds
  /\ db["s1"].status = "active"
  /\ db["s1"].ended_at = NullTime
  /\ currentSession # <<>>
  /\ currentSession[1].sessionId = "s2"
  /\ db["s2"].status = "failed"
  /\ db["s2"].ended_at # NullTime

\* C38: once stop() has been called during the game loop and has closed the
\* page (the running flag is false and the page is null while run() is
\* inside runGameLoop), run() does not end by raising, and when it returns
\* the bound session's row is completed.
StopDuringRunCompletes ==
  [][(pc \in LoopPositions /\ ~automationIsRunning /\ thisPage = NullHandle) =>
       /\ pc' # "raised"
       /\ pc' = "returned" =>
            db'[currentSession'[1].sessionId].status = "completed"]_vars

\* C33: with a game action that fails in every pass of the loop and no
\* stop(), run() eventually ends by raising, the session being failed.
FailingLoopRaises ==
  <>(pc = "raised" /\ db["s1"].status = "failed")

countOf(log, e) == Cardinality({ i \in 1..Len(log) : log[i] = e })

\* C35: what a createMany call issues is BEGIN, the INSERTs, and then
\* either COMMIT followed by exactly one save, the last thing issued, or
\* ROLLBACK and no save: no save comes between the rows or before COMMIT.
BatchPersistsOnce ==
  result.op = "createMany" =>
    /\ dbLog # <<>> /\ dbLog[1] = "begin"
    /\ \A i \in 1..Len(dbLog) :
          dbLog[i] = "save" => (i = Len(dbLog) /\ i > 1 /\ dbLog[i - 1] = "commit")
    /\ countOf(dbLog, "commit") = 1 =>
          /\ countOf(dbLog, "save") = 1
          /\ countOf(dbLog, "rollback") = 0
    /\ countOf(dbLog, "commit") = 0 =>
          /\ countOf(dbLog, "save") = 0
          /\ dbLog[Len(dbLog)] = "rollback"

\* a batch of two rows was committed and then saved once
BatchPersistsOnceWitness ==
  /\ result.op = "createMany"
  /\ result.success
  /\ dbLog = << "begin", "insert", "insert", "commit", "save" >>
  /\ Len(scrapedData.rows) = 2
  /\ scrapedDisk = scrapedData

\* ------------------------------------------------------ handle ownership
\* C36: closeContext(A) and closePage(A, p) leave registered every page that
\* was created under another context id, and every other context.
ClosesOnlyOwnHandles ==
  [][(call'.op \in { "closeContext", "closePage" }) =>
       /\ \A i \in 1..Len(pages) :
             pages[i].owner # call'.ctx =>
                \E j \in 1..Len(pages') : pages'[j] = pages[i]
       /\ \A i \in 1..Len(contexts) :
             contexts[i].id # call'.ctx =>
                \E j \in 1..Len(contexts') : contexts'[j] = contexts[i]]_vars

\* ------------------------------------------------- the bound session copy
\* C37: after an updateSessionStatus call on a bound controller whose status
\* write succeeded, the bound session is the session of the persisted row:
\* same status, endedAt and metadata.
BoundSessionMatchesRow ==
  [][\A st \in ControllerStatuses, e \in { "" } \cup ErrorMessages,
        ok2 \in BOOLEAN :
       (updateSessionStatus(st, e, TRUE, ok2) /\ currentSession # <<>>) =>
          currentSession'[1] =
             mapRowToSession(currentSession[1].sessionId,
                             db'[currentSession[1].sessionId])]_vars

\* ------------------------------------------------------ executeWithRetry
\* C39: for every policy and every operation (one that fails a number of
\* times and then succeeds, or always fails), executeWithRetry makes the
\* invocations and sleeps the delays that retry makes under the same policy.
ExecuteWithRetryHonoursPolicy ==
  [][\A config \in PolicyConfigs, fails \in FailCounts :
       executeWithRetry(config, fails) =>
          /\ rInvocations' = retryOutcome(config, fails).invocations
          /\ rSleeps' = retryOutcome(config, fails).sleeps]_vars

\* ------------------------------------------------------ unknown sessions
\* C40: updateStatus and updateMetadata for a session id no row has return
\* a failure without data, which is 'Session not found' unless the write of
\* the file failed; the table keeps the rows it had, unchanged, and gets no
\* new row, and the file holds the table as it was or as it was last saved.
UpdateOfMissingSessionFails ==
  [][/\ \A s \in SessionIds, st \in SessionStatuses, ok \in BOOLEAN :
          (updateStatus(s, st, ok) /\ s \notin DOMAIN db) =>
             /\ ~result'.success
             /\ result'.data = <<>>
             /\ ok => result'.error = "Session not found"
             /\ db' = db
             /\ disk' \in { db, disk }
     /\ \A s \in SessionIds, m \in MetadataObjects, ok \in BOOLEAN :
          (updateMetadata(s, m, ok) /\ s \notin DOMAIN db) =>
             /\ ~result'.success
             /\ result'.data = <<>>
             /\ ok => result'.error = "Session not found"
             /\ db' = db
             /\ disk' \in { db, disk }]_vars

\* updateMetadata was called for an id without a row while another session
\* has a row
UpdateOfMissingSessionFailsWitness ==
  /\ result.op = "updateMetadata"
  /\ ~result.success
  /\ result.error = "Session not found"
  /\ result.sessionId \notin DOMAIN db
  /\ db # <<>>
  /\ disk = db

====
